---- MODULE Spec2Model ----
(***************************************************************************)
(* Live-update subscription engine of the SDK: RealtimeService (push       *)
(* stream, services/realtime.rs) and PubSubService (socket,                *)
(* services/pubsub.rs).  The two services own independent state, so a      *)
(* behaviour follows one service instance; Init picks which one.           *)
(* Caller threads and the background thread are processes with a program   *)
(* position each; mutexes that stay locked across several steps            *)
(* (the registry mutex, the handle mutex) have an owner.                   *)
(***************************************************************************)
EXTENDS Naturals, Sequences, FiniteSets, TLC

\* ---------------------------------------------------------------- bounds
\* calls the caller thread may start
MaxOps == 3
\* calls the first of two concurrent caller threads may start; the second
\* may start one call less
ConcurrentOps == 2
\* opens of the connection that succeed under Spec
MaxConn == 1
\* opens of the connection that succeed under the reconnect specifications
ReconnectConn == 2
\* opens of the connection that fail
MaxFails == 1
\* opens of the connection that fail under the backoff specification
BackoffFails == 6
\* inbound event frames / socket messages the server sends
MaxFrames == 1
\* inbound event frames / socket messages under the dispatch specification
DispatchFrames == 2
\* listener callbacks that panic
MaxPanics == 1
\* lines of the push stream read by listen() under the line specification
MaxLines == 4
\* entries of a query map / of a header map given to the key builder
MaxEntries == 2
\* socket messages that are not JSON, under the malformed-frame specification
MaxMalformed == 1

Callers == {"u1", "u2"}

\* ------------------------------------------------------ strings and keys
\* A string is a sequence of characters.  The characters of a topic are
\* one-letter strings; the percent-encoded options of a key are tokens
\* <<"enc", ...>>, which are never equal to a raw "?" or "&".
EmptyStr == <<>>

StartsWith(s, p) == Len(p) <= Len(s) /\ SubSeq(s, 1, Len(p)) = p

Contains(s, c) == \E i \in 1..Len(s) : s[i] = c

\* Option maps are functions from a set of names to values.
NoMap == <<>>

MapIsEmpty(m) == DOMAIN m = {}

\* serde_json::Map is a BTreeMap: entries serialise in name order.
NameOrder == <<"f", "g", "headers", "query", "x", "y">>

SerializeMap(m) ==
    LET names == SelectSeq(NameOrder, LAMBDA n : n \in DOMAIN m)
    IN  [i \in 1..Len(names) |-> <<names[i], m[names[i]]>>]

\* The JSON object {"headers":{..},"query":{..}} with only the non-empty
\* members, as serde_json::to_string writes it ("headers" sorts first).
SerializeOptions(query, headers) ==
    (IF MapIsEmpty(headers) THEN <<>> ELSE <<<<"headers", SerializeMap(headers)>>>>)
    \o (IF MapIsEmpty(query) THEN <<>> ELSE <<<<"query", SerializeMap(query)>>>>)

\* urlencoding::encode: every character outside [A-Za-z0-9-_.~] is escaped,
\* so the result holds no raw '?' or '&'.
Encode(serialized) == <<<<"enc", serialized>>>>

build_subscription_key(topic, query, headers) ==
    IF MapIsEmpty(query) /\ MapIsEmpty(headers)
    THEN topic
    ELSE LET suffix == <<"options=">> \o Encode(SerializeOptions(query, headers))
         IN  IF Contains(topic, "?")
             THEN topic \o <<"&">> \o suffix
             ELSE topic \o <<"?">> \o suffix

\* The removal test of unsubscribe(Some(topic)) and of
\* unsubscribe_by_topic_and_id: key == topic or key starts with topic + "?".
KeyMatchesTopic(key, topic) ==
    key = topic \/ StartsWith(key, topic \o <<"?">>)

\* ------------------------------------------------------------- inputs
Topics == { <<"a">>, <<"a", "?", "b">> }

OptionInputs == { [query |-> NoMap, headers |-> NoMap],
                  [query |-> [n \in {"f"} |-> "1"], headers |-> NoMap] }

\* Collections whose RecordService shares the RealtimeService; the name
\* of one starts with the name of the other.
Collections == { <<"c">>, <<"c", "d">> }

\* The keys of the topics, and of the topic "t" of every collection
AllKeys == { build_subscription_key(t, o.query, o.headers) :
                t \in Topics \cup { c \o <<"/", "t">> : c \in Collections },
                o \in OptionInputs }

\* -------------------------------------------------------------- state
VARIABLES
    transport,      \* "rt": RealtimeService, "ps": PubSubService
    subscriptions,  \* registry: key -> sequence of listener ids
    client_id,      \* rt: session id, 0 is the empty string
    stop,           \* stop flag
    ready,          \* readiness flag
    handle,         \* TRUE: the handle slot holds Some(JoinHandle)
    counter,        \* rt: listener-id counter; ps: identity of the Arc pushed
    sender,         \* ps: TRUE: the sender slot holds Some(Sender)
    queue,          \* ps: envelopes in the channel of the current sender
    subsLock,       \* owner of the registry mutex, "free" if none
    handleLock,     \* owner of the handle mutex, "free" if none
    pc,             \* position of each caller thread
    call,           \* locals of each caller's current call
    opsLeft,        \* calls each caller may still start
    closures,       \* unsubscribe closures returned and not yet invoked
    bgpc,           \* position of the background thread, "dead" if none runs
    attempt,        \* rt run_loop: the local `attempt`
    failed,         \* rt: opens that failed since the last one that succeeded (history)
    delay,          \* rt run_loop: backoff delay slept in this iteration, 0 if none
    bgcid,          \* rt submit_subscriptions_inner: the client id it read
    frame,          \* the frame / message the background thread handles
    listeners,      \* dispatch: the listeners cloned from the registry
    invoked,        \* dispatch: how many of the cloned listeners were called
    panicked,       \* the listeners whose callback has panicked (history)
    conn,           \* opens that succeeded so far; the open connection's id
    srvHello,       \* rt: PB_CONNECT was sent on this connection; ps: hello was
    srvSubs,        \* the keys / topics the server holds for the open connection
    pos,            \* rt listen: lines of the stream read so far
    event,          \* rt listen: the accumulator `event`
    dispatched,     \* rt: the name, payload and id of every dispatch_event call (history)
    built,          \* rt: the keys build_subscription_key returned for the inputs of env
    env,            \* what is left to explore: opens, failures, frames, panics; the inputs
    lastPost        \* rt: the last resubscription request sent

vars == <<transport, subscriptions, client_id, stop, ready, handle, counter,
          sender, queue, subsLock, handleLock, pc, call, opsLeft, closures,
          bgpc, attempt, failed, delay, bgcid, frame, listeners, invoked, panicked, conn,
          srvHello,
          srvSubs, pos, event, dispatched, built, env, lastPost>>

NoCall == [kind |-> "none", topic |-> EmptyStr, id |-> 0, cid |-> 0, flag |-> FALSE]

NoFrame == [kind |-> "none", name |-> EmptyStr]

\* Event::default(), lines 329-334
DefaultEvent == [event |-> EmptyStr, data |-> EmptyStr, id |-> EmptyStr]

NoPost == [cid |-> 0, keys |-> {}, by |-> "none"]

EmptyRegistry == <<>>

RegistryIsEmpty == DOMAIN subscriptions = {}

\* RealtimeService::new / PubSubService::new: the state after construction
\* of the service `kind`, with the calls and the network events to explore.
InitWith(kind, ops, e) ==
    /\ transport = kind
    /\ subscriptions = EmptyRegistry
    /\ client_id = 0
    /\ stop = FALSE
    /\ ready = FALSE
    /\ handle = FALSE
    /\ counter = 0
    /\ sender = FALSE
    /\ queue = <<>>
    /\ subsLock = "free"
    /\ handleLock = "free"
    /\ pc = [t \in Callers |-> "idle"]
    /\ call = [t \in Callers |-> NoCall]
    /\ opsLeft = ops
    /\ closures = {}
    /\ bgpc = "dead"
    /\ attempt = 0
    /\ failed = 0
    /\ delay = 0
    /\ bgcid = 0
    /\ frame = NoFrame
    /\ listeners = <<>>
    /\ invoked = 0
    /\ panicked = {}
    /\ conn = 0
    /\ srvHello = FALSE
    /\ srvSubs = {}
    /\ pos = 0
    /\ event = DefaultEvent
    /\ dispatched = <<>>
    /\ built = <<>>
    /\ env = e
    /\ lastPost = NoPost

\* One caller thread makes the calls.
OneCaller == [t \in Callers |-> IF t = "u1" THEN MaxOps ELSE 0]

\* Two caller threads make calls concurrently.
TwoCallers == [t \in Callers |-> IF t = "u1" THEN ConcurrentOps ELSE ConcurrentOps - 1]

\* The calls explored: every public call, subscribe and closure calls only,
\* subscribe and unsubscribe(None) calls only, or subscribe and every kind
\* of removal (neither publish nor a disconnect() of the user).
Allowed(scope) ==
    IF scope = "subscribe_closure" THEN {"subscribe", "closure"}
    ELSE IF scope = "subscribe_clear" THEN {"subscribe", "unsub_all"}
    ELSE IF scope = "subscribe_remove"
    THEN {"subscribe", "closure", "unsub_topic", "unsub_all", "unsub_prefix",
          "unsubscribe"}
    ELSE {"subscribe", "closure", "unsub_topic", "unsub_all", "unsub_prefix",
          "unsubscribe", "publish", "disconnect"}

\* Every topic and option input.
FullEnv(opens, scope) ==
    [conns |-> opens, fails |-> MaxFails, frames |-> MaxFrames,
     panics |-> MaxPanics,
     topics |-> Topics \cup {EmptyStr}, options |-> OptionInputs,
     scope |-> scope, stream |-> <<>>, builds |-> <<>>, malformed |-> 0]

\* One topic, no options.
PlainEnv(opens, scope) ==
    [conns |-> opens, fails |-> MaxFails, frames |-> MaxFrames,
     panics |-> MaxPanics,
     topics |-> { <<"a">>, EmptyStr },
     options |-> { [query |-> NoMap, headers |-> NoMap] },
     scope |-> scope, stream |-> <<>>, builds |-> <<>>, malformed |-> 0]

Init ==
    \/ InitWith("rt", OneCaller, FullEnv(MaxConn, "all"))
    \/ \E scope \in {"all", "subscribe_closure"} :
          InitWith("ps", OneCaller, FullEnv(MaxConn, scope))

\* ---------------------------------------------------- registry helpers
\* HashMap::entry(key).or_default().push(id)
RegistryPush(reg, key, id) ==
    [k \in DOMAIN reg \cup {key} |->
        IF k = key
        THEN (IF key \in DOMAIN reg THEN reg[key] ELSE <<>>) \o <<id>>
        ELSE reg[k]]

\* Vec::retain(|l| l.id != id)
ListWithout(list, id) == SelectSeq(list, LAMBDA l : l # id)

\* HashMap::get(name).cloned().unwrap_or_default()
ListenersFor(reg, name) == IF name \in DOMAIN reg THEN reg[name] ELSE <<>>

\* A caller thread t starts a call of the kind.
Starts(t, kind) == pc[t] = "idle" /\ opsLeft[t] > 0 /\ kind \in Allowed(env.scope)

\* =====================================================================
\* RealtimeService, caller side
\* =====================================================================

\* RtSubscribe, wrong: the listener id is taken from the counter before the
\* topic is looked at
RtSubscribeCountingFirst(t, topic, o) ==
    /\ transport = "rt"
    /\ Starts(t, "subscribe")
    /\ opsLeft' = [opsLeft EXCEPT ![t] = @ - 1]
    /\ counter' = counter + 1
    /\ IF topic = EmptyStr
       THEN UNCHANGED <<subscriptions, pc, call>>
       ELSE /\ subsLock = "free"
            /\ subscriptions' =
                   RegistryPush(subscriptions,
                                build_subscription_key(topic, o.query, o.headers),
                                counter + 1)
            /\ call' = [call EXCEPT ![t] =
                   [kind |-> "subscribe", topic |-> topic, id |-> counter + 1,
                    cid |-> 0, flag |-> FALSE]]
            /\ pc' = [pc EXCEPT ![t] = "ensure_thread"]
    /\ UNCHANGED <<transport, client_id, stop, ready, handle, sender, queue,
                   subsLock, handleLock, closures, bgpc, attempt, failed,
                   delay, bgcid, frame, listeners, invoked, panicked, conn,
                   srvHello, srvSubs, pos, event, dispatched, built, env,
                   lastPost>>

\* subscribe, lines 63-82: the empty-topic error, else the listener id from
\* the counter and the push under the registry mutex.
RtSubscribe(t, topic, o) ==
    /\ transport = "rt"
    /\ Starts(t, "subscribe")
    /\ opsLeft' = [opsLeft EXCEPT ![t] = @ - 1]
    /\ IF topic = EmptyStr
       THEN UNCHANGED <<subscriptions, counter, pc, call>>
       ELSE /\ subsLock = "free"
            /\ counter' = counter + 1
            /\ subscriptions' =
                   RegistryPush(subscriptions,
                                build_subscription_key(topic, o.query, o.headers),
                                counter + 1)
            /\ call' = [call EXCEPT ![t] =
                   [kind |-> "subscribe", topic |-> topic, id |-> counter + 1,
                    cid |-> 0, flag |-> FALSE]]
            /\ pc' = [pc EXCEPT ![t] = "ensure_thread"]
    /\ UNCHANGED <<transport, client_id, stop, ready, handle, sender, queue,
                   subsLock, handleLock, closures, bgpc, attempt, failed,
                   delay, bgcid, frame, listeners, invoked, panicked, conn,
                   srvHello, srvSubs, pos, event, dispatched, built, env,
                   lastPost>>

\* ensure_thread: under the handle mutex, spawn run_loop unless the slot
\* holds a handle.
RtEnsureThread(t) ==
    /\ transport = "rt"
    /\ pc[t] = "ensure_thread"
    /\ handleLock = "free"
    /\ IF handle
       THEN UNCHANGED <<stop, handle, bgpc, attempt, failed, delay>>
       ELSE /\ stop' = FALSE
            /\ handle' = TRUE
            /\ bgpc' = "top"
            /\ attempt' = 0
            /\ failed' = 0
            /\ delay' = 0
    /\ pc' = [pc EXCEPT ![t] = "ensure_connected"]
    /\ UNCHANGED <<transport, subscriptions, client_id, ready, counter,
                   sender, queue, subsLock, handleLock, call, opsLeft,
                   closures, bgcid, frame, listeners, invoked, panicked, conn,
                   srvHello, srvSubs, pos, event, dispatched, built, env,
                   lastPost>>

\* RtEnsureConnected, wrong: a subscribe that times out takes its listener
\* out of the registry again
RtEnsureConnectedRollingBack(t) ==
    /\ transport = "rt"
    /\ pc[t] = "ensure_connected"
    /\ IF ready
       THEN /\ pc' = [pc EXCEPT ![t] = "submit_cid"]
            /\ UNCHANGED <<call, subscriptions>>
       ELSE /\ pc' = [pc EXCEPT ![t] = "idle"]
            /\ call' = [call EXCEPT ![t] = NoCall]
            /\ subscriptions' =
                   [k \in {x \in DOMAIN subscriptions :
                              ListWithout(subscriptions[x], call[t].id) # <<>>} |->
                       ListWithout(subscriptions[k], call[t].id)]
    /\ UNCHANGED <<transport, client_id, stop, ready, handle, counter, sender,
                   queue, subsLock, handleLock, opsLeft, closures, bgpc,
                   attempt, failed, delay, bgcid, frame, listeners, invoked,
                   panicked, conn, srvHello, srvSubs, pos, event, dispatched,
                   built, env, lastPost>>

\* ensure_connected: returns once readiness is set; the bounded wait may run
\* out while it is not, and subscribe then returns the connection error.
RtEnsureConnected(t) ==
    /\ transport = "rt"
    /\ pc[t] = "ensure_connected"
    /\ IF ready
       THEN /\ pc' = [pc EXCEPT ![t] = "submit_cid"]
            /\ UNCHANGED call
       ELSE /\ pc' = [pc EXCEPT ![t] = "idle"]
            /\ call' = [call EXCEPT ![t] = NoCall]
    /\ UNCHANGED <<transport, subscriptions, client_id, stop, ready, handle,
                   counter, sender, queue, subsLock, handleLock, opsLeft,
                   closures, bgpc, attempt, failed, delay, bgcid, frame,
                   listeners, invoked, panicked, conn, srvHello, srvSubs, pos,
                   event, dispatched, built, env, lastPost>>

\* submit_subscriptions, line 192: the client id is copied first.
RtSubmitCid(t) ==
    /\ transport = "rt"
    /\ pc[t] = "submit_cid"
    /\ call' = [call EXCEPT ![t].cid = client_id]
    /\ pc' = [pc EXCEPT ![t] = "submit_keys"]
    /\ UNCHANGED <<transport, subscriptions, client_id, stop, ready, handle,
                   counter, sender, queue, subsLock, handleLock, opsLeft,
                   closures, bgpc, attempt, failed, delay, bgcid, frame,
                   listeners, invoked, panicked, conn, srvHello, srvSubs, pos,
                   event, dispatched, built, env, lastPost>>

\* ResubscriptionPost, wrong: the request is sent whatever the client id
\* and the key set are
ResubscriptionPostUnguarded(last, cid, keys, by) ==
    [cid |-> cid, keys |-> keys, by |-> by]

\* The request submit_subscriptions sends for the copied client id and key
\* set; with either empty it sends none and the last request stays as it is.
ResubscriptionPost(last, cid, keys, by) ==
    IF cid = 0 \/ keys = {}
    THEN last
    ELSE [cid |-> cid, keys |-> keys, by |-> by]

\* The server's subscriptions of the open connection after a request: a
\* request that names the connection's session id replaces them, any other
\* request is refused.
ServerAfterPost(held, session, cid, keys) ==
    IF cid = 0 \/ keys = {} \/ cid # session THEN held ELSE keys

\* submit_subscriptions, lines 193-207: the key set is copied under the
\* registry mutex (parking_lot does not hand it to a thread that already
\* holds it), the request is sent, and subscribe returns its closure.
RtSubmitKeys(t) ==
    /\ transport = "rt"
    /\ pc[t] = "submit_keys"
    /\ subsLock = "free"
    /\ lastPost' = ResubscriptionPost(lastPost, call[t].cid, DOMAIN subscriptions, t)
    /\ srvSubs' = ServerAfterPost(srvSubs, conn, call[t].cid, DOMAIN subscriptions)
    /\ closures' = IF call[t].kind = "subscribe"
                   THEN closures \cup {[topic |-> call[t].topic, id |-> call[t].id]}
                   ELSE closures
    /\ pc' = [pc EXCEPT ![t] = "idle"]
    /\ call' = [call EXCEPT ![t] = NoCall]
    /\ UNCHANGED <<transport, subscriptions, client_id, stop, ready, handle,
                   counter, sender, queue, subsLock, handleLock, opsLeft,
                   bgpc, attempt, failed, delay, bgcid, frame, listeners,
                   invoked, panicked, conn, srvHello, pos, event, dispatched,
                   built, env>>

\* RemoveListener, wrong: a key left without listeners stays in the registry
RemoveListenerKeepingKey(reg, topic, id) ==
    [k \in DOMAIN reg |->
        IF KeyMatchesTopic(k, topic) THEN ListWithout(reg[k], id) ELSE reg[k]]

\* unsubscribe_by_topic_and_id, lines 121-132: in every key that matches the
\* topic the listener with this id is dropped, and a key left without
\* listeners is removed.
RemoveListener(reg, topic, id) ==
    LET after(k) == IF KeyMatchesTopic(k, topic)
                    THEN ListWithout(reg[k], id)
                    ELSE reg[k]
    IN  [k \in {x \in DOMAIN reg : after(x) # <<>>} |-> after(k)]

\* the flag `changed` of unsubscribe_by_topic_and_id: set for every matching
\* key that is present.
RemovalChanged(reg, topic) ==
    \E k \in DOMAIN reg : KeyMatchesTopic(k, topic)

\* unsubscribe(Some(topic)), line 96
RemoveTopic(reg, topic) ==
    [k \in {x \in DOMAIN reg : ~KeyMatchesTopic(x, topic)} |-> reg[k]]

\* unsubscribe_by_prefix, line 110
RemovePrefix(reg, prefix) ==
    [k \in {x \in DOMAIN reg : ~StartsWith(x, prefix)} |-> reg[k]]

\* Where a removal goes on while it keeps the registry guard: disconnect()
\* if the registry is empty, submit_subscriptions() otherwise.
AfterRemoval(reg) == IF DOMAIN reg = {} THEN "disc_stop" ELSE "submit_cid"

\* The closure returned by subscribe: unsubscribe_by_topic_and_id(topic, id).
\* The guard taken at line 119 lives to the end of the function.
RtClosure(t, c) ==
    /\ transport = "rt"
    /\ Starts(t, "closure")
    /\ c \in closures
    /\ subsLock = "free"
    /\ opsLeft' = [opsLeft EXCEPT ![t] = @ - 1]
    /\ closures' = closures \ {c}
    /\ subscriptions' = RemoveListener(subscriptions, c.topic, c.id)
    /\ IF RemovalChanged(subscriptions, c.topic)
       THEN /\ subsLock' = t
            /\ pc' = [pc EXCEPT ![t] = AfterRemoval(subscriptions')]
            /\ call' = [call EXCEPT ![t] =
                   [kind |-> "closure", topic |-> c.topic, id |-> c.id,
                    cid |-> 0, flag |-> FALSE]]
       ELSE UNCHANGED <<subsLock, pc, call>>
    /\ UNCHANGED <<transport, client_id, stop, ready, handle, counter, sender,
                   queue, handleLock, bgpc, attempt, failed, delay, bgcid,
                   frame, listeners, invoked, panicked, conn, srvHello,
                   srvSubs, pos, event, dispatched, built, env, lastPost>>

\* unsubscribe(Some(topic)), lines 94-101; the guard lives to the end of the
\* block.
RtUnsubscribeTopic(t, topic) ==
    /\ transport = "rt"
    /\ Starts(t, "unsub_topic")
    /\ subsLock = "free"
    /\ opsLeft' = [opsLeft EXCEPT ![t] = @ - 1]
    /\ subscriptions' = RemoveTopic(subscriptions, topic)
    /\ subsLock' = t
    /\ pc' = [pc EXCEPT ![t] = AfterRemoval(subscriptions')]
    /\ call' = [call EXCEPT ![t] =
           [kind |-> "unsub_topic", topic |-> topic, id |-> 0, cid |-> 0,
            flag |-> FALSE]]
    /\ UNCHANGED <<transport, client_id, stop, ready, handle, counter, sender,
                   queue, handleLock, closures, bgpc, attempt, failed, delay,
                   bgcid, frame, listeners, invoked, panicked, conn, srvHello,
                   srvSubs, pos, event, dispatched, built, env, lastPost>>

\* unsubscribe(None), lines 103-104: the guard of clear() is a temporary of
\* that statement.
RtUnsubscribeAll(t) ==
    /\ transport = "rt"
    /\ Starts(t, "unsub_all")
    /\ subsLock = "free"
    /\ opsLeft' = [opsLeft EXCEPT ![t] = @ - 1]
    /\ subscriptions' = EmptyRegistry
    /\ pc' = [pc EXCEPT ![t] = "disc_stop"]
    /\ call' = [call EXCEPT ![t] =
           [kind |-> "unsub_all", topic |-> EmptyStr, id |-> 0, cid |-> 0,
            flag |-> FALSE]]
    /\ UNCHANGED <<transport, client_id, stop, ready, handle, counter, sender,
                   queue, subsLock, handleLock, closures, bgpc, attempt,
                   failed, delay, bgcid, frame, listeners, invoked, panicked,
                   conn, srvHello, srvSubs, pos, event, dispatched, built,
                   env, lastPost>>

\* unsubscribe_by_prefix, lines 108-116
RtUnsubscribeByPrefix(t, prefix) ==
    /\ transport = "rt"
    /\ Starts(t, "unsub_prefix")
    /\ subsLock = "free"
    /\ opsLeft' = [opsLeft EXCEPT ![t] = @ - 1]
    /\ subscriptions' = RemovePrefix(subscriptions, prefix)
    /\ subsLock' = t
    /\ pc' = [pc EXCEPT ![t] = AfterRemoval(subscriptions')]
    /\ call' = [call EXCEPT ![t] =
           [kind |-> "unsub_prefix", topic |-> prefix, id |-> 0, cid |-> 0,
            flag |-> FALSE]]
    /\ UNCHANGED <<transport, client_id, stop, ready, handle, counter, sender,
                   queue, handleLock, closures, bgpc, attempt, failed, delay,
                   bgcid, frame, listeners, invoked, panicked, conn, srvHello,
                   srvSubs, pos, event, dispatched, built, env, lastPost>>

\* disconnect() called by the user
RtDisconnect(t) ==
    /\ transport = "rt"
    /\ Starts(t, "disconnect")
    /\ opsLeft' = [opsLeft EXCEPT ![t] = @ - 1]
    /\ pc' = [pc EXCEPT ![t] = "disc_stop"]
    /\ call' = [call EXCEPT ![t] =
           [kind |-> "disconnect", topic |-> EmptyStr, id |-> 0, cid |-> 0,
            flag |-> FALSE]]
    /\ UNCHANGED <<transport, subscriptions, client_id, stop, ready, handle,
                   counter, sender, queue, subsLock, handleLock, closures,
                   bgpc, attempt, failed, delay, bgcid, frame, listeners,
                   invoked, panicked, conn, srvHello, srvSubs, pos, event,
                   dispatched, built, env, lastPost>>

\* disconnect, line 144
RtDiscStop(t) ==
    /\ transport = "rt"
    /\ pc[t] = "disc_stop"
    /\ stop' = TRUE
    /\ pc' = [pc EXCEPT ![t] = "disc_take"]
    /\ UNCHANGED <<transport, subscriptions, client_id, ready, handle,
                   counter, sender, queue, subsLock, handleLock, call,
                   opsLeft, closures, bgpc, attempt, failed, delay, bgcid,
                   frame, listeners, invoked, panicked, conn, srvHello,
                   srvSubs, pos, event, dispatched, built, env, lastPost>>

\* RtDiscTake, wrong: the guard of the handle mutex is dropped before the
\* join
RtDiscTakeReleasing(t) ==
    /\ transport = "rt"
    /\ pc[t] = "disc_take"
    /\ handleLock = "free"
    /\ IF handle
       THEN /\ handle' = FALSE
            /\ pc' = [pc EXCEPT ![t] = "disc_join"]
       ELSE /\ pc' = [pc EXCEPT ![t] = "disc_cid"]
            /\ UNCHANGED handle
    /\ UNCHANGED <<transport, subscriptions, client_id, stop, ready, counter,
                   sender, queue, subsLock, handleLock, call, opsLeft,
                   closures, bgpc, attempt, failed, delay, bgcid, frame,
                   listeners, invoked, panicked, conn, srvHello, srvSubs, pos,
                   event, dispatched, built, env, lastPost>>

\* disconnect, line 145: the handle is taken; the guard of handle.lock() is a
\* temporary of the `if let` and is held while the body joins.
RtDiscTake(t) ==
    /\ transport = "rt"
    /\ pc[t] = "disc_take"
    /\ handleLock = "free"
    /\ IF handle
       THEN /\ handle' = FALSE
            /\ handleLock' = t
            /\ pc' = [pc EXCEPT ![t] = "disc_join"]
       ELSE /\ pc' = [pc EXCEPT ![t] = "disc_cid"]
            /\ UNCHANGED <<handle, handleLock>>
    /\ UNCHANGED <<transport, subscriptions, client_id, stop, ready, counter,
                   sender, queue, subsLock, call, opsLeft, closures, bgpc,
                   attempt, failed, delay, bgcid, frame, listeners, invoked,
                   panicked, conn, srvHello, srvSubs, pos, event, dispatched,
                   built, env, lastPost>>

\* RtDiscJoin, wrong: disconnect does not wait for the background thread
RtDiscJoinWithoutWaiting(t) ==
    /\ transport = "rt"
    /\ pc[t] = "disc_join"
    /\ handleLock' = "free"
    /\ pc' = [pc EXCEPT ![t] = "disc_cid"]
    /\ UNCHANGED <<transport, subscriptions, client_id, stop, ready, handle,
                   counter, sender, queue, subsLock, call, opsLeft, closures,
                   bgpc, attempt, failed, delay, bgcid, frame, listeners,
                   invoked, panicked, conn, srvHello, srvSubs, pos, event,
                   dispatched, built, env, lastPost>>

\* disconnect, line 146: join returns when the background thread has exited.
RtDiscJoin(t) ==
    /\ transport = "rt"
    /\ pc[t] = "disc_join"
    /\ bgpc = "dead"
    /\ handleLock' = "free"
    /\ pc' = [pc EXCEPT ![t] = "disc_cid"]
    /\ UNCHANGED <<transport, subscriptions, client_id, stop, ready, handle,
                   counter, sender, queue, subsLock, call, opsLeft, closures,
                   bgpc, attempt, failed, delay, bgcid, frame, listeners,
                   invoked, panicked, conn, srvHello, srvSubs, pos, event,
                   dispatched, built, env, lastPost>>

\* RtDiscClientId, wrong: disconnect leaves the session id as it is
RtDiscClientIdKeepingSession(t) ==
    /\ transport = "rt"
    /\ pc[t] = "disc_cid"
    /\ pc' = [pc EXCEPT ![t] = "disc_ready"]
    /\ UNCHANGED <<transport, subscriptions, client_id, stop, ready, handle,
                   counter, sender, queue, subsLock, handleLock, call,
                   opsLeft, closures, bgpc, attempt, failed, delay, bgcid,
                   frame, listeners, invoked, panicked, conn, srvHello,
                   srvSubs, pos, event, dispatched, built, env, lastPost>>

\* disconnect, line 148
RtDiscClientId(t) ==
    /\ transport = "rt"
    /\ pc[t] = "disc_cid"
    /\ client_id' = 0
    /\ pc' = [pc EXCEPT ![t] = "disc_ready"]
    /\ UNCHANGED <<transport, subscriptions, stop, ready, handle, counter,
                   sender, queue, subsLock, handleLock, call, opsLeft,
                   closures, bgpc, attempt, failed, delay, bgcid, frame,
                   listeners, invoked, panicked, conn, srvHello, srvSubs, pos,
                   event, dispatched, built, env, lastPost>>

\* disconnect, lines 149-151, and the return of the call that ran it, which
\* drops the registry guard if the call holds one.
RtDiscReady(t) ==
    /\ transport = "rt"
    /\ pc[t] = "disc_ready"
    /\ ready' = FALSE
    /\ subsLock' = IF subsLock = t THEN "free" ELSE subsLock
    /\ pc' = [pc EXCEPT ![t] = "idle"]
    /\ call' = [call EXCEPT ![t] = NoCall]
    /\ UNCHANGED <<transport, subscriptions, client_id, stop, handle, counter,
                   sender, queue, handleLock, opsLeft, closures, bgpc,
                   attempt, failed, delay, bgcid, frame, listeners, invoked,
                   panicked, conn, srvHello, srvSubs, pos, event, dispatched,
                   built, env, lastPost>>

\* =====================================================================
\* RealtimeService, background thread
\* =====================================================================

\* run_loop, lines 247-253
backoff == <<200, 500, 1000, 2000, 5000>>

\* BackoffDelay, wrong: the index wraps around instead of being clamped
BackoffDelayWrapping(n) == backoff[(n % Len(backoff)) + 1]

\* run_loop, line 277: backoff[min(attempt, backoff.len() - 1)] (indices
\* from 1 here)
BackoffDelay(n) ==
    backoff[(IF n <= Len(backoff) - 1 THEN n ELSE Len(backoff) - 1) + 1]

\* run_loop, line 257: the loop ends when the stop flag is set.
RtBgStopped ==
    /\ transport = "rt"
    /\ bgpc = "top"
    /\ stop
    /\ bgpc' = "dead"
    /\ delay' = 0
    /\ UNCHANGED <<transport, subscriptions, client_id, stop, ready, handle,
                   counter, sender, queue, subsLock, handleLock, pc, call,
                   opsLeft, closures, attempt, failed, bgcid, frame,
                   listeners, invoked, panicked, conn, srvHello, srvSubs, pos,
                   event, dispatched, built, env, lastPost>>

\* run_loop, lines 257-274: the stop flag is not set and the open succeeds;
\* listen() starts with an empty accumulator.  The server gives the
\* connection a fresh session id and holds no subscriptions for it.
RtBgOpenOk ==
    /\ transport = "rt"
    /\ bgpc = "top"
    /\ ~stop
    /\ env.conns > 0
    /\ env' = [env EXCEPT !.conns = @ - 1]
    /\ conn' = conn + 1
    /\ srvHello' = FALSE
    /\ srvSubs' = {}
    /\ attempt' = 0
    /\ failed' = 0
    /\ delay' = 0
    /\ bgpc' = "listen"
    /\ UNCHANGED <<transport, subscriptions, client_id, stop, ready, handle,
                   counter, sender, queue, subsLock, handleLock, pc, call,
                   opsLeft, closures, bgcid, frame, listeners, invoked,
                   panicked, pos, event, dispatched, built, lastPost>>

\* run_loop, lines 257-280: the stop flag is not set and the open fails:
\* handle_disconnect (the client id is emptied and readiness cleared), then
\* the backoff delay of this attempt is slept.
RtBgOpenFail ==
    /\ transport = "rt"
    /\ bgpc = "top"
    /\ ~stop
    /\ env.fails > 0
    /\ env' = [env EXCEPT !.fails = @ - 1]
    /\ client_id' = 0
    /\ ready' = FALSE
    /\ delay' = BackoffDelay(attempt)
    /\ attempt' = attempt + 1
    /\ failed' = failed + 1
    /\ bgpc' = "after_stop"
    /\ UNCHANGED <<transport, subscriptions, stop, handle, counter, sender,
                   queue, subsLock, handleLock, pc, call, opsLeft, closures,
                   bgcid, frame, listeners, invoked, panicked, conn, srvHello,
                   srvSubs, pos, event, dispatched, built, lastPost>>

\* RtBgReadEnd, wrong: the accumulator outlives the connection
RtBgReadEndKeepingAccumulator ==
    /\ transport = "rt"
    /\ bgpc = "listen"
    /\ bgpc' = "after_stop"
    /\ UNCHANGED <<transport, subscriptions, client_id, stop, ready, handle,
                   counter, sender, queue, subsLock, handleLock, pc, call,
                   opsLeft, closures, attempt, failed, delay, bgcid, frame,
                   listeners, invoked, panicked, conn, srvHello, srvSubs, pos,
                   event, dispatched, built, env, lastPost>>

\* listen, lines 298-299: end of stream or a read error; listen() returns
\* and its accumulator is dropped.
RtBgReadEnd ==
    /\ transport = "rt"
    /\ bgpc = "listen"
    /\ bgpc' = "after_stop"
    /\ event' = DefaultEvent
    /\ UNCHANGED <<transport, subscriptions, client_id, stop, ready, handle,
                   counter, sender, queue, subsLock, handleLock, pc, call,
                   opsLeft, closures, attempt, failed, delay, bgcid, frame,
                   listeners, invoked, panicked, conn, srvHello, srvSubs, pos,
                   dispatched, built, env, lastPost>>

\* Frames the server sends: PB_CONNECT first on every connection, with the
\* session id or (malformed) without one, then events named by a key the
\* connection is subscribed to.
ConnectFrames == { [kind |-> "connect_id", name |-> EmptyStr],
                   [kind |-> "connect_noid", name |-> EmptyStr] }

EventFrames == { [kind |-> "event", name |-> k] : k \in AllKeys }

\* RtBgReadFrame, wrong: the next frame is read while the callbacks of the
\* previous one are still being called
RtBgReadFrameDuringDispatch(f) ==
    /\ transport = "rt"
    /\ bgpc \in {"listen", "invoke"}
    /\ IF srvHello
       THEN /\ f \in EventFrames
            /\ f.name \in srvSubs
            /\ env.frames > 0
            /\ env' = [env EXCEPT !.frames = @ - 1]
            /\ UNCHANGED srvHello
       ELSE /\ f \in ConnectFrames
            /\ srvHello' = TRUE
            /\ UNCHANGED env
    /\ IF stop
       THEN /\ bgpc' = "after_stop"
            /\ UNCHANGED frame
       ELSE /\ bgpc' = IF f.kind = "event" THEN "dispatch"
                       ELSE IF f.kind = "connect_id" THEN "hs_id"
                       ELSE "hs_cid"
            /\ frame' = f
    /\ UNCHANGED <<transport, subscriptions, client_id, stop, ready, handle,
                   counter, sender, queue, subsLock, handleLock, pc, call,
                   opsLeft, closures, attempt, failed, delay, bgcid,
                   listeners, invoked, panicked, conn, srvSubs, pos, event,
                   dispatched, built, lastPost>>

\* listen, lines 298-310: the lines of a frame up to its blank line are
\* read; the stop flag is looked at after every line, and a set flag ends
\* listen() before the frame is dispatched.
RtBgReadFrame(f) ==
    /\ transport = "rt"
    /\ bgpc = "listen"
    /\ IF srvHello
       THEN /\ f \in EventFrames
            /\ f.name \in srvSubs
            /\ env.frames > 0
            /\ env' = [env EXCEPT !.frames = @ - 1]
            /\ UNCHANGED srvHello
       ELSE /\ f \in ConnectFrames
            /\ srvHello' = TRUE
            /\ UNCHANGED env
    /\ IF stop
       THEN /\ bgpc' = "after_stop"
            /\ UNCHANGED frame
       ELSE /\ bgpc' = IF f.kind = "event" THEN "dispatch"
                       ELSE IF f.kind = "connect_id" THEN "hs_id"
                       ELSE "hs_cid"
            /\ frame' = f
    /\ UNCHANGED <<transport, subscriptions, client_id, stop, ready, handle,
                   counter, sender, queue, subsLock, handleLock, pc, call,
                   opsLeft, closures, attempt, failed, delay, bgcid,
                   listeners, invoked, panicked, conn, srvSubs, pos, event,
                   dispatched, built, lastPost>>

\* dispatch_event, line 356: the session id of PB_CONNECT is stored
RtBgStoreClientId ==
    /\ transport = "rt"
    /\ bgpc = "hs_id"
    /\ client_id' = conn
    /\ bgpc' = "hs_ready"
    /\ UNCHANGED <<transport, subscriptions, stop, ready, handle, counter,
                   sender, queue, subsLock, handleLock, pc, call, opsLeft,
                   closures, attempt, failed, delay, bgcid, frame, listeners,
                   invoked, panicked, conn, srvHello, srvSubs, pos, event,
                   dispatched, built, env, lastPost>>

\* dispatch_event, lines 357-360: readiness is set and the waiters woken
RtBgSetReady ==
    /\ transport = "rt"
    /\ bgpc = "hs_ready"
    /\ ready' = TRUE
    /\ bgpc' = "hs_cid"
    /\ UNCHANGED <<transport, subscriptions, client_id, stop, handle, counter,
                   sender, queue, subsLock, handleLock, pc, call, opsLeft,
                   closures, attempt, failed, delay, bgcid, frame, listeners,
                   invoked, panicked, conn, srvHello, srvSubs, pos, event,
                   dispatched, built, env, lastPost>>

\* submit_subscriptions_inner, lines 378-381
RtBgReplayCid ==
    /\ transport = "rt"
    /\ bgpc = "hs_cid"
    /\ IF client_id = 0
       THEN /\ bgpc' = "listen"
            /\ frame' = NoFrame
            /\ event' = DefaultEvent
            /\ UNCHANGED bgcid
       ELSE /\ bgpc' = "hs_keys"
            /\ bgcid' = client_id
            /\ UNCHANGED <<frame, event>>
    /\ UNCHANGED <<transport, subscriptions, client_id, stop, ready, handle,
                   counter, sender, queue, subsLock, handleLock, pc, call,
                   opsLeft, closures, attempt, failed, delay, listeners,
                   invoked, panicked, conn, srvHello, srvSubs, pos,
                   dispatched, built, env, lastPost>>

\* RtBgReplayKeys, wrong: the handshake is not followed by a request
RtBgReplayKeysSendingNothing ==
    /\ transport = "rt"
    /\ bgpc = "hs_keys"
    /\ subsLock = "free"
    /\ bgpc' = "listen"
    /\ bgcid' = 0
    /\ frame' = NoFrame
    /\ event' = DefaultEvent
    /\ UNCHANGED <<transport, subscriptions, client_id, stop, ready, handle,
                   counter, sender, queue, subsLock, handleLock, pc, call,
                   opsLeft, closures, attempt, failed, delay, listeners,
                   invoked, panicked, conn, srvHello, srvSubs, pos,
                   dispatched, built, env, lastPost>>

\* submit_subscriptions_inner, lines 382-392
RtBgReplayKeys ==
    /\ transport = "rt"
    /\ bgpc = "hs_keys"
    /\ subsLock = "free"
    /\ lastPost' = ResubscriptionPost(lastPost, bgcid, DOMAIN subscriptions, "bg")
    /\ srvSubs' = ServerAfterPost(srvSubs, conn, bgcid, DOMAIN subscriptions)
    /\ bgpc' = "listen"
    /\ bgcid' = 0
    /\ frame' = NoFrame
    /\ event' = DefaultEvent
    /\ UNCHANGED <<transport, subscriptions, client_id, stop, ready, handle,
                   counter, sender, queue, subsLock, handleLock, pc, call,
                   opsLeft, closures, attempt, failed, delay, listeners,
                   invoked, panicked, conn, srvHello, pos, dispatched, built,
                   env>>

\* dispatch_event, lines 366-369: the listeners of the key equal to the
\* event name are cloned under the registry mutex.
RtBgDispatch ==
    /\ transport = "rt"
    /\ bgpc = "dispatch"
    /\ subsLock = "free"
    /\ listeners' = ListenersFor(subscriptions, frame.name)
    /\ invoked' = 0
    /\ bgpc' = "invoke"
    /\ UNCHANGED <<transport, subscriptions, client_id, stop, ready, handle,
                   counter, sender, queue, subsLock, handleLock, pc, call,
                   opsLeft, closures, attempt, failed, delay, bgcid, frame,
                   panicked, conn, srvHello, srvSubs, pos, event, dispatched,
                   built, env, lastPost>>

\* What a callback does when it is called
Outcomes == {"returns", "panics"}

\* The listeners whose callback has panicked, after a call of the listener
\* id with the outcome.
PanickedAfter(set, id, outcome) ==
    IF outcome = "panics" THEN set \cup {id} ELSE set

\* RtBgInvoke, wrong: a panic of a callback is not caught and ends the
\* background thread
RtBgInvokePropagating(outcome) ==
    /\ transport = "rt"
    /\ bgpc = "invoke"
    /\ invoked < Len(listeners)
    /\ IF outcome = "panics"
       THEN /\ env.panics > 0
            /\ env' = [env EXCEPT !.panics = @ - 1]
            /\ bgpc' = "dead"
       ELSE UNCHANGED <<env, bgpc>>
    /\ invoked' = invoked + 1
    /\ panicked' = PanickedAfter(panicked, listeners[invoked + 1], outcome)
    /\ UNCHANGED <<transport, subscriptions, client_id, stop, ready, handle,
                   counter, sender, queue, subsLock, handleLock, pc, call,
                   opsLeft, closures, attempt, failed, delay, bgcid, frame,
                   listeners, conn, srvHello, srvSubs, pos, event, dispatched,
                   built, lastPost>>

\* dispatch_event, lines 370-374: the next cloned listener is called inside
\* catch_unwind; a panic of the callback is caught and dropped.
RtBgInvoke(outcome) ==
    /\ transport = "rt"
    /\ bgpc = "invoke"
    /\ invoked < Len(listeners)
    /\ IF outcome = "panics"
       THEN /\ env.panics > 0
            /\ env' = [env EXCEPT !.panics = @ - 1]
       ELSE UNCHANGED env
    /\ invoked' = invoked + 1
    /\ panicked' = PanickedAfter(panicked, listeners[invoked + 1], outcome)
    /\ UNCHANGED <<transport, subscriptions, client_id, stop, ready, handle,
                   counter, sender, queue, subsLock, handleLock, pc, call,
                   opsLeft, closures, bgpc, attempt, failed, delay, bgcid,
                   frame, listeners, conn, srvHello, srvSubs, pos, event,
                   dispatched, built, lastPost>>

\* RtBgInvoked, wrong: the accumulator is not reset after the dispatch
RtBgInvokedKeepingAccumulator ==
    /\ transport = "rt"
    /\ bgpc = "invoke"
    /\ invoked = Len(listeners)
    /\ listeners' = <<>>
    /\ invoked' = 0
    /\ frame' = NoFrame
    /\ bgpc' = "listen"
    /\ UNCHANGED <<transport, subscriptions, client_id, stop, ready, handle,
                   counter, sender, queue, subsLock, handleLock, pc, call,
                   opsLeft, closures, attempt, failed, delay, bgcid, panicked,
                   conn, srvHello, srvSubs, pos, event, dispatched, built,
                   env, lastPost>>

\* dispatch_event, lines 370-375: every cloned listener was called;
\* listen() resets the accumulator (line 308) and goes on.
RtBgInvoked ==
    /\ transport = "rt"
    /\ bgpc = "invoke"
    /\ invoked = Len(listeners)
    /\ listeners' = <<>>
    /\ invoked' = 0
    /\ frame' = NoFrame
    /\ event' = DefaultEvent
    /\ bgpc' = "listen"
    /\ UNCHANGED <<transport, subscriptions, client_id, stop, ready, handle,
                   counter, sender, queue, subsLock, handleLock, pc, call,
                   opsLeft, closures, attempt, failed, delay, bgcid, panicked,
                   conn, srvHello, srvSubs, pos, dispatched, built, env,
                   lastPost>>

\* run_loop, lines 283-285
RtBgAfterStop ==
    /\ transport = "rt"
    /\ bgpc = "after_stop"
    /\ bgpc' = IF stop THEN "dead" ELSE "after_reset"
    /\ UNCHANGED <<transport, subscriptions, client_id, stop, ready, handle,
                   counter, sender, queue, subsLock, handleLock, pc, call,
                   opsLeft, closures, attempt, failed, delay, bgcid, frame,
                   listeners, invoked, panicked, conn, srvHello, srvSubs, pos,
                   event, dispatched, built, env, lastPost>>

\* run_loop, line 286: handle_disconnect
RtBgAfterReset ==
    /\ transport = "rt"
    /\ bgpc = "after_reset"
    /\ client_id' = 0
    /\ ready' = FALSE
    /\ bgpc' = "after_empty"
    /\ UNCHANGED <<transport, subscriptions, stop, handle, counter, sender,
                   queue, subsLock, handleLock, pc, call, opsLeft, closures,
                   attempt, failed, delay, bgcid, frame, listeners, invoked,
                   panicked, conn, srvHello, srvSubs, pos, event, dispatched,
                   built, env, lastPost>>

\* run_loop, lines 287-289
RtBgAfterEmpty ==
    /\ transport = "rt"
    /\ bgpc = "after_empty"
    /\ subsLock = "free"
    /\ bgpc' = IF RegistryIsEmpty THEN "dead" ELSE "top"
    /\ UNCHANGED <<transport, subscriptions, client_id, stop, ready, handle,
                   counter, sender, queue, subsLock, handleLock, pc, call,
                   opsLeft, closures, attempt, failed, delay, bgcid, frame,
                   listeners, invoked, panicked, conn, srvHello, srvSubs, pos,
                   event, dispatched, built, env, lastPost>>

\* A caller thread starts a call of the public API.
RtCall(t) ==
    \/ \E topic \in env.topics, o \in env.options : RtSubscribe(t, topic, o)
    \/ \E c \in closures : RtClosure(t, c)
    \/ \E topic \in env.topics \ {EmptyStr} : RtUnsubscribeTopic(t, topic)
    \/ RtUnsubscribeAll(t)
    \/ \E prefix \in env.topics \ {EmptyStr} : RtUnsubscribeByPrefix(t, prefix)
    \/ RtDisconnect(t)

\* A caller thread goes on with the call it is in.
RtStep(t) ==
    \/ RtEnsureThread(t)
    \/ RtEnsureConnected(t)
    \/ RtSubmitCid(t)
    \/ RtSubmitKeys(t)
    \/ RtDiscStop(t)
    \/ RtDiscTake(t)
    \/ RtDiscJoin(t)
    \/ RtDiscClientId(t)
    \/ RtDiscReady(t)

RtBackground ==
    \/ RtBgStopped
    \/ RtBgOpenOk
    \/ RtBgOpenFail
    \/ RtBgReadEnd
    \/ \E f \in ConnectFrames \cup EventFrames : RtBgReadFrame(f)
    \/ RtBgStoreClientId
    \/ RtBgSetReady
    \/ RtBgReplayCid
    \/ RtBgReplayKeys
    \/ RtBgDispatch
    \/ \E outcome \in Outcomes : RtBgInvoke(outcome)
    \/ RtBgInvoked
    \/ RtBgAfterStop
    \/ RtBgAfterReset
    \/ RtBgAfterEmpty

\* =====================================================================
\* PubSubService, caller side
\* =====================================================================

\* The socket is open: the background thread is inside the inner loop of
\* socket_loop.
SocketOpen == bgpc \in {"inner", "drain", "read", "handle", "invoke"}

\* The open connection, 0 if the socket is not open.
OpenConn == IF SocketOpen THEN conn ELSE 0

\* send_envelope: the envelope enters the channel if the sender slot holds a
\* sender and the receiver of its channel still exists; Sender::send fails
\* otherwise and the error is dropped.
Sent(q, e) == IF sender /\ bgpc # "dead" THEN Append(q, e) ELSE q

\* first_listener, wrong: every subscribe call takes its listener for the first
first_listener_always(reg, topic) == TRUE

\* subscribe, lines 90-93
first_listener(reg, topic) == ListenersFor(reg, topic) = <<>>

\* The closure of subscribe, lines 111-119: the last element of the topic's
\* list is popped; an emptied list is removed with its key.
PopListener(reg, topic) ==
    IF topic \notin DOMAIN reg
    THEN reg
    ELSE LET rest == SubSeq(reg[topic], 1, Len(reg[topic]) - 1)
         IN  IF rest = <<>>
             THEN [k \in DOMAIN reg \ {topic} |-> reg[k]]
             ELSE [reg EXCEPT ![topic] = rest]

\* The closure of subscribe, lines 111-118
should_unsub(reg, topic) ==
    topic \in DOMAIN reg /\ Len(reg[topic]) <= 1

\* unsubscribe, lines 132-141: HashMap::remove of the topic, or clear
RemoveKey(reg, topic) ==
    IF topic = EmptyStr
    THEN EmptyRegistry
    ELSE [k \in DOMAIN reg \ {topic} |-> reg[k]]

\* publish, lines 50-59
PsPublish(t, topic) ==
    /\ transport = "ps"
    /\ Starts(t, "publish")
    /\ opsLeft' = [opsLeft EXCEPT ![t] = @ - 1]
    /\ IF topic = EmptyStr
       THEN UNCHANGED <<pc, call>>
       ELSE /\ call' = [call EXCEPT ![t] =
                   [kind |-> "publish", topic |-> topic, id |-> 0, cid |-> 0,
                    flag |-> TRUE]]
            /\ pc' = [pc EXCEPT ![t] = "ensure_ready"]
    /\ UNCHANGED <<transport, subscriptions, client_id, stop, ready, handle,
                   counter, sender, queue, subsLock, handleLock, closures,
                   bgpc, attempt, failed, delay, bgcid, frame, listeners,
                   invoked, panicked, conn, srvHello, srvSubs, pos, event,
                   dispatched, built, env, lastPost>>

\* subscribe, lines 78-95: the empty-topic error, else the push under the
\* registry mutex.
PsSubscribe(t, topic) ==
    /\ transport = "ps"
    /\ Starts(t, "subscribe")
    /\ opsLeft' = [opsLeft EXCEPT ![t] = @ - 1]
    /\ IF topic = EmptyStr
       THEN UNCHANGED <<subscriptions, counter, pc, call>>
       ELSE /\ subsLock = "free"
            /\ counter' = counter + 1
            /\ subscriptions' = RegistryPush(subscriptions, topic, counter + 1)
            /\ call' = [call EXCEPT ![t] =
                   [kind |-> "subscribe", topic |-> topic, id |-> counter + 1,
                    cid |-> 0, flag |-> first_listener(subscriptions, topic)]]
            /\ pc' = [pc EXCEPT ![t] = "ensure_ready"]
    /\ UNCHANGED <<transport, client_id, stop, ready, handle, sender, queue,
                   subsLock, handleLock, closures, bgpc, attempt, failed,
                   delay, bgcid, frame, listeners, invoked, panicked, conn,
                   srvHello, srvSubs, pos, event, dispatched, built, env,
                   lastPost>>

\* ensure_socket, lines 157-159
PsEnsureReady(t) ==
    /\ transport = "ps"
    /\ pc[t] = "ensure_ready"
    /\ pc' = [pc EXCEPT ![t] = IF ready THEN "send" ELSE "ensure_handle"]
    /\ UNCHANGED <<transport, subscriptions, client_id, stop, ready, handle,
                   counter, sender, queue, subsLock, handleLock, call,
                   opsLeft, closures, bgpc, attempt, failed, delay, bgcid,
                   frame, listeners, invoked, panicked, conn, srvHello,
                   srvSubs, pos, event, dispatched, built, env, lastPost>>

\* ensure_socket, lines 160-175: under the handle mutex, unless the slot
\* holds a handle the stop flag is cleared, a new channel replaces the
\* sender and socket_loop is spawned with its receiver.
PsEnsureHandle(t) ==
    /\ transport = "ps"
    /\ pc[t] = "ensure_handle"
    /\ handleLock = "free"
    /\ IF handle
       THEN UNCHANGED <<stop, handle, sender, queue, bgpc>>
       ELSE /\ stop' = FALSE
            /\ sender' = TRUE
            /\ queue' = <<>>
            /\ handle' = TRUE
            /\ bgpc' = "top"
    /\ pc' = [pc EXCEPT ![t] = "send"]
    /\ UNCHANGED <<transport, subscriptions, client_id, ready, counter,
                   subsLock, handleLock, call, opsLeft, closures, attempt,
                   failed, delay, bgcid, frame, listeners, invoked, panicked,
                   conn, srvHello, srvSubs, pos, event, dispatched, built,
                   env, lastPost>>

\* The envelope a call hands to send_envelope; `at` is the connection that
\* is open when it is handed over and, for a removal, was open when the call
\* changed the registry, 0 if there is none.
EnvelopeOf(c) ==
    [type  |-> IF c.kind \in {"publish", "subscribe"} THEN c.kind ELSE "unsubscribe",
     topic |-> c.topic,
     at    |-> IF c.kind \in {"publish", "subscribe"} \/ c.cid = OpenConn
               THEN OpenConn
               ELSE 0]

\* Where a call goes on after its send_envelope
AfterSend(t, kind) ==
    IF kind = "closure" THEN "closure_check"
    ELSE IF kind = "unsubscribe" /\ RegistryIsEmpty THEN "disc_stop"
    ELSE "idle"

\* publish, line 65; subscribe, lines 97-127; the closure, lines 121-123;
\* unsubscribe, lines 138-146.  subscribe sends if its listener was the
\* first of the topic and returns its closure; the closure sends if it
\* removed the key; unsubscribe, which holds the registry guard, goes on to
\* disconnect() if the registry is empty.
PsSend(t) ==
    /\ transport = "ps"
    /\ pc[t] = "send"
    /\ queue' = IF call[t].flag THEN Sent(queue, EnvelopeOf(call[t])) ELSE queue
    /\ closures' = IF call[t].kind = "subscribe"
                   THEN closures \cup {[topic |-> call[t].topic, id |-> call[t].id]}
                   ELSE closures
    /\ pc' = [pc EXCEPT ![t] = AfterSend(t, call[t].kind)]
    /\ IF AfterSend(t, call[t].kind) = "idle"
       THEN /\ call' = [call EXCEPT ![t] = NoCall]
            /\ subsLock' = IF subsLock = t THEN "free" ELSE subsLock
       ELSE UNCHANGED <<call, subsLock>>
    /\ UNCHANGED <<transport, subscriptions, client_id, stop, ready, handle,
                   counter, sender, handleLock, opsLeft, bgpc, attempt,
                   failed, delay, bgcid, frame, listeners, invoked, panicked,
                   conn, srvHello, srvSubs, pos, event, dispatched, built,
                   env, lastPost>>

\* The closure returned by subscribe, lines 108-120
PsClosure(t, c) ==
    /\ transport = "ps"
    /\ Starts(t, "closure")
    /\ c \in closures
    /\ subsLock = "free"
    /\ opsLeft' = [opsLeft EXCEPT ![t] = @ - 1]
    /\ closures' = closures \ {c}
    /\ subscriptions' = PopListener(subscriptions, c.topic)
    /\ call' = [call EXCEPT ![t] =
           [kind |-> "closure", topic |-> c.topic, id |-> c.id, cid |-> OpenConn,
            flag |-> should_unsub(subscriptions, c.topic)]]
    /\ pc' = [pc EXCEPT ![t] = "send"]
    /\ UNCHANGED <<transport, client_id, stop, ready, handle, counter, sender,
                   queue, subsLock, handleLock, bgpc, attempt, failed, delay,
                   bgcid, frame, listeners, invoked, panicked, conn, srvHello,
                   srvSubs, pos, event, dispatched, built, env, lastPost>>

\* The closure, lines 124-126: the guard of the condition is dropped before
\* disconnect() runs.
PsClosureCheck(t) ==
    /\ transport = "ps"
    /\ pc[t] = "closure_check"
    /\ subsLock = "free"
    /\ IF RegistryIsEmpty
       THEN /\ pc' = [pc EXCEPT ![t] = "disc_stop"]
            /\ UNCHANGED call
       ELSE /\ pc' = [pc EXCEPT ![t] = "idle"]
            /\ call' = [call EXCEPT ![t] = NoCall]
    /\ UNCHANGED <<transport, subscriptions, client_id, stop, ready, handle,
                   counter, sender, queue, subsLock, handleLock, opsLeft,
                   closures, bgpc, attempt, failed, delay, bgcid, frame,
                   listeners, invoked, panicked, conn, srvHello, srvSubs, pos,
                   event, dispatched, built, env, lastPost>>

\* unsubscribe, lines 131-141; topic is the empty string for None.  The
\* guard lives to the end of the function.
PsUnsubscribe(t, topic) ==
    /\ transport = "ps"
    /\ Starts(t, "unsubscribe")
    /\ subsLock = "free"
    /\ opsLeft' = [opsLeft EXCEPT ![t] = @ - 1]
    /\ subscriptions' = RemoveKey(subscriptions, topic)
    /\ subsLock' = t
    /\ call' = [call EXCEPT ![t] =
           [kind |-> "unsubscribe", topic |-> topic, id |-> 0, cid |-> OpenConn,
            flag |-> TRUE]]
    /\ pc' = [pc EXCEPT ![t] = "send"]
    /\ UNCHANGED <<transport, client_id, stop, ready, handle, counter, sender,
                   queue, handleLock, closures, bgpc, attempt, failed, delay,
                   bgcid, frame, listeners, invoked, panicked, conn, srvHello,
                   srvSubs, pos, event, dispatched, built, env, lastPost>>

\* disconnect() called by the user
PsDisconnect(t) ==
    /\ transport = "ps"
    /\ Starts(t, "disconnect")
    /\ opsLeft' = [opsLeft EXCEPT ![t] = @ - 1]
    /\ pc' = [pc EXCEPT ![t] = "disc_stop"]
    /\ call' = [call EXCEPT ![t] =
           [kind |-> "disconnect", topic |-> EmptyStr, id |-> 0, cid |-> 0,
            flag |-> FALSE]]
    /\ UNCHANGED <<transport, subscriptions, client_id, stop, ready, handle,
                   counter, sender, queue, subsLock, handleLock, closures,
                   bgpc, attempt, failed, delay, bgcid, frame, listeners,
                   invoked, panicked, conn, srvHello, srvSubs, pos, event,
                   dispatched, built, env, lastPost>>

\* disconnect, line 149
PsDiscStop(t) ==
    /\ transport = "ps"
    /\ pc[t] = "disc_stop"
    /\ stop' = TRUE
    /\ pc' = [pc EXCEPT ![t] = "disc_take"]
    /\ UNCHANGED <<transport, subscriptions, client_id, ready, handle,
                   counter, sender, queue, subsLock, handleLock, call,
                   opsLeft, closures, bgpc, attempt, failed, delay, bgcid,
                   frame, listeners, invoked, panicked, conn, srvHello,
                   srvSubs, pos, event, dispatched, built, env, lastPost>>

\* disconnect, line 150: the handle is taken; the guard of handle.lock() is
\* held while the body of the `if let` joins.
PsDiscTake(t) ==
    /\ transport = "ps"
    /\ pc[t] = "disc_take"
    /\ handleLock = "free"
    /\ IF handle
       THEN /\ handle' = FALSE
            /\ handleLock' = t
            /\ pc' = [pc EXCEPT ![t] = "disc_join"]
       ELSE /\ pc' = [pc EXCEPT ![t] = "disc_ready"]
            /\ UNCHANGED <<handle, handleLock>>
    /\ UNCHANGED <<transport, subscriptions, client_id, stop, ready, counter,
                   sender, queue, subsLock, call, opsLeft, closures, bgpc,
                   attempt, failed, delay, bgcid, frame, listeners, invoked,
                   panicked, conn, srvHello, srvSubs, pos, event, dispatched,
                   built, env, lastPost>>

\* PsDiscJoin, wrong: disconnect does not wait for the background thread
PsDiscJoinWithoutWaiting(t) ==
    /\ transport = "ps"
    /\ pc[t] = "disc_join"
    /\ handleLock' = "free"
    /\ pc' = [pc EXCEPT ![t] = "disc_ready"]
    /\ UNCHANGED <<transport, subscriptions, client_id, stop, ready, handle,
                   counter, sender, queue, subsLock, call, opsLeft, closures,
                   bgpc, attempt, failed, delay, bgcid, frame, listeners,
                   invoked, panicked, conn, srvHello, srvSubs, pos, event,
                   dispatched, built, env, lastPost>>

\* disconnect, line 151
PsDiscJoin(t) ==
    /\ transport = "ps"
    /\ pc[t] = "disc_join"
    /\ bgpc = "dead"
    /\ handleLock' = "free"
    /\ pc' = [pc EXCEPT ![t] = "disc_ready"]
    /\ UNCHANGED <<transport, subscriptions, client_id, stop, ready, handle,
                   counter, sender, queue, subsLock, call, opsLeft, closures,
                   bgpc, attempt, failed, delay, bgcid, frame, listeners,
                   invoked, panicked, conn, srvHello, srvSubs, pos, event,
                   dispatched, built, env, lastPost>>

\* disconnect, line 153, and the return of the call that ran it
PsDiscReady(t) ==
    /\ transport = "ps"
    /\ pc[t] = "disc_ready"
    /\ ready' = FALSE
    /\ subsLock' = IF subsLock = t THEN "free" ELSE subsLock
    /\ pc' = [pc EXCEPT ![t] = "idle"]
    /\ call' = [call EXCEPT ![t] = NoCall]
    /\ UNCHANGED <<transport, subscriptions, client_id, stop, handle, counter,
                   sender, queue, handleLock, opsLeft, closures, bgpc,
                   attempt, failed, delay, bgcid, frame, listeners, invoked,
                   panicked, conn, srvHello, srvSubs, pos, event, dispatched,
                   built, env, lastPost>>

\* =====================================================================
\* PubSubService, background thread
\* =====================================================================

\* What the server holds for the connection after an envelope was written
\* to the socket.
ServerAfterEnvelope(held, e) ==
    IF e.type = "subscribe" THEN held \cup {e.topic}
    ELSE IF e.type = "unsubscribe"
         THEN (IF e.topic = EmptyStr THEN {} ELSE held \ {e.topic})
    ELSE held

\* socket_loop, lines 195-197 and 232
PsBgStopped ==
    /\ transport = "ps"
    /\ bgpc = "top"
    /\ stop
    /\ ready' = FALSE
    /\ bgpc' = "dead"
    /\ UNCHANGED <<transport, subscriptions, client_id, stop, handle, counter,
                   sender, queue, subsLock, handleLock, pc, call, opsLeft,
                   closures, attempt, failed, delay, bgcid, frame, listeners,
                   invoked, panicked, conn, srvHello, srvSubs, pos, event,
                   dispatched, built, env, lastPost>>

\* socket_loop, lines 195-204: the connect succeeds, readiness is set and
\* hello is written.  The server holds no subscriptions for a new
\* connection.
PsBgConnectOk ==
    /\ transport = "ps"
    /\ bgpc = "top"
    /\ ~stop
    /\ env.conns > 0
    /\ env' = [env EXCEPT !.conns = @ - 1]
    /\ conn' = conn + 1
    /\ srvHello' = TRUE
    /\ srvSubs' = {}
    /\ ready' = TRUE
    /\ bgpc' = "inner"
    /\ UNCHANGED <<transport, subscriptions, client_id, stop, handle, counter,
                   sender, queue, subsLock, handleLock, pc, call, opsLeft,
                   closures, attempt, failed, delay, bgcid, frame, listeners,
                   invoked, panicked, pos, event, dispatched, built,
                   lastPost>>

\* socket_loop, lines 195-199 and 223-225: the connect fails
PsBgConnectFail ==
    /\ transport = "ps"
    /\ bgpc = "top"
    /\ ~stop
    /\ env.fails > 0
    /\ env' = [env EXCEPT !.fails = @ - 1]
    /\ ready' = FALSE
    /\ bgpc' = "check"
    /\ UNCHANGED <<transport, subscriptions, client_id, stop, handle, counter,
                   sender, queue, subsLock, handleLock, pc, call, opsLeft,
                   closures, attempt, failed, delay, bgcid, frame, listeners,
                   invoked, panicked, conn, srvHello, srvSubs, pos, event,
                   dispatched, built, lastPost>>

\* socket_loop, lines 206-209 and 221: the stop flag is set at the head of
\* the inner loop; the socket is closed with the channel as it is.
PsBgClose ==
    /\ transport = "ps"
    /\ bgpc = "inner"
    /\ stop
    /\ srvHello' = FALSE
    /\ srvSubs' = {}
    /\ ready' = FALSE
    /\ bgpc' = "check"
    /\ UNCHANGED <<transport, subscriptions, client_id, stop, handle, counter,
                   sender, queue, subsLock, handleLock, pc, call, opsLeft,
                   closures, attempt, failed, delay, bgcid, frame, listeners,
                   invoked, panicked, conn, pos, event, dispatched, built,
                   env, lastPost>>

\* socket_loop, lines 206-213: the stop flag is clear at the head of the
\* inner loop; try_recv hands over an envelope, which is written to the
\* socket.
PsBgDrainOne ==
    /\ transport = "ps"
    /\ \/ bgpc = "inner" /\ ~stop
       \/ bgpc = "drain"
    /\ queue # <<>>
    /\ srvSubs' = ServerAfterEnvelope(srvSubs, Head(queue))
    /\ queue' = Tail(queue)
    /\ bgpc' = "drain"
    /\ UNCHANGED <<transport, subscriptions, client_id, stop, ready, handle,
                   counter, sender, subsLock, handleLock, pc, call, opsLeft,
                   closures, attempt, failed, delay, bgcid, frame, listeners,
                   invoked, panicked, conn, srvHello, pos, event, dispatched,
                   built, env, lastPost>>

\* socket_loop, lines 206-214: try_recv finds the channel empty
PsBgDrainDone ==
    /\ transport = "ps"
    /\ \/ bgpc = "inner" /\ ~stop
       \/ bgpc = "drain"
    /\ queue = <<>>
    /\ bgpc' = "read"
    /\ UNCHANGED <<transport, subscriptions, client_id, stop, ready, handle,
                   counter, sender, queue, subsLock, handleLock, pc, call,
                   opsLeft, closures, attempt, failed, delay, bgcid, frame,
                   listeners, invoked, panicked, conn, srvHello, srvSubs, pos,
                   event, dispatched, built, env, lastPost>>

\* Messages the server sends: one for a topic the connection is subscribed to
MessageFrames == { [kind |-> "message", name |-> k] : k \in Topics }

\* Texts that are not JSON: the text of a message for a topic, cut short
MalformedTexts == { [kind |-> "malformed", name |-> k] : k \in Topics }

\* handle_message, lines 252-257: the topic of a text; a text that does not
\* parse is taken as the empty object, whose topic is the empty string.
TopicOfText(f) == IF f.kind = "message" THEN f.name ELSE EmptyStr

\* socket_loop, line 215: a text message is read
PsBgReadText(f) ==
    /\ transport = "ps"
    /\ bgpc = "read"
    /\ IF f \in MessageFrames
       THEN /\ f.name \in srvSubs
            /\ env.frames > 0
            /\ env' = [env EXCEPT !.frames = @ - 1]
       ELSE /\ f \in MalformedTexts
            /\ env.malformed > 0
            /\ env' = [env EXCEPT !.malformed = @ - 1]
    /\ frame' = f
    /\ bgpc' = "handle"
    /\ UNCHANGED <<transport, subscriptions, client_id, stop, ready, handle,
                   counter, sender, queue, subsLock, handleLock, pc, call,
                   opsLeft, closures, attempt, failed, delay, bgcid,
                   listeners, invoked, panicked, conn, srvHello, srvSubs, pos,
                   event, dispatched, built, lastPost>>

\* socket_loop, lines 216 and 219: a message that is not text
PsBgReadOther ==
    /\ transport = "ps"
    /\ bgpc = "read"
    /\ bgpc' = "inner"
    /\ UNCHANGED <<transport, subscriptions, client_id, stop, ready, handle,
                   counter, sender, queue, subsLock, handleLock, pc, call,
                   opsLeft, closures, attempt, failed, delay, bgcid, frame,
                   listeners, invoked, panicked, conn, srvHello, srvSubs, pos,
                   event, dispatched, built, env, lastPost>>

\* socket_loop, lines 217 and 221: the read fails; the connection is over
PsBgReadError ==
    /\ transport = "ps"
    /\ bgpc = "read"
    /\ srvHello' = FALSE
    /\ srvSubs' = {}
    /\ ready' = FALSE
    /\ bgpc' = "check"
    /\ UNCHANGED <<transport, subscriptions, client_id, stop, handle, counter,
                   sender, queue, subsLock, handleLock, pc, call, opsLeft,
                   closures, attempt, failed, delay, bgcid, frame, listeners,
                   invoked, panicked, conn, pos, event, dispatched, built,
                   env, lastPost>>

\* handle_message, lines 273-276: the listeners of the message's topic are
\* cloned under the registry mutex.
PsBgHandle ==
    /\ transport = "ps"
    /\ bgpc = "handle"
    /\ subsLock = "free"
    /\ listeners' = ListenersFor(subscriptions, TopicOfText(frame))
    /\ invoked' = 0
    /\ bgpc' = "invoke"
    /\ UNCHANGED <<transport, subscriptions, client_id, stop, ready, handle,
                   counter, sender, queue, subsLock, handleLock, pc, call,
                   opsLeft, closures, attempt, failed, delay, bgcid, frame,
                   panicked, conn, srvHello, srvSubs, pos, event, dispatched,
                   built, env, lastPost>>

\* handle_message, lines 277-280: the next cloned listener is called inside
\* catch_unwind; a panic of the callback is caught and dropped.
PsBgInvoke(outcome) ==
    /\ transport = "ps"
    /\ bgpc = "invoke"
    /\ invoked < Len(listeners)
    /\ IF outcome = "panics"
       THEN /\ env.panics > 0
            /\ env' = [env EXCEPT !.panics = @ - 1]
       ELSE UNCHANGED env
    /\ invoked' = invoked + 1
    /\ panicked' = PanickedAfter(panicked, listeners[invoked + 1], outcome)
    /\ UNCHANGED <<transport, subscriptions, client_id, stop, ready, handle,
                   counter, sender, queue, subsLock, handleLock, pc, call,
                   opsLeft, closures, bgpc, attempt, failed, delay, bgcid,
                   frame, listeners, conn, srvHello, srvSubs, pos, event,
                   dispatched, built, lastPost>>

\* handle_message, lines 277-281, and socket_loop, line 219: every cloned
\* listener was called.
PsBgInvoked ==
    /\ transport = "ps"
    /\ bgpc = "invoke"
    /\ invoked = Len(listeners)
    /\ listeners' = <<>>
    /\ invoked' = 0
    /\ frame' = NoFrame
    /\ bgpc' = "inner"
    /\ UNCHANGED <<transport, subscriptions, client_id, stop, ready, handle,
                   counter, sender, queue, subsLock, handleLock, pc, call,
                   opsLeft, closures, attempt, failed, delay, bgcid, panicked,
                   conn, srvHello, srvSubs, pos, event, dispatched, built,
                   env, lastPost>>

\* socket_loop, lines 227-232: the first operand of the test; the loop ends
\* if the stop flag is set, and the thread then clears readiness and exits,
\* dropping the receiver.
PsBgCheck ==
    /\ transport = "ps"
    /\ bgpc = "check"
    /\ IF stop
       THEN /\ bgpc' = "dead"
            /\ ready' = FALSE
       ELSE /\ bgpc' = "check_empty"
            /\ UNCHANGED ready
    /\ UNCHANGED <<transport, subscriptions, client_id, stop, handle, counter,
                   sender, queue, subsLock, handleLock, pc, call, opsLeft,
                   closures, attempt, failed, delay, bgcid, frame, listeners,
                   invoked, panicked, conn, srvHello, srvSubs, pos, event,
                   dispatched, built, env, lastPost>>

\* socket_loop, lines 227-232: the second operand of the test; the loop
\* ends if the registry, looked at under its mutex, is empty.
PsBgCheckEmpty ==
    /\ transport = "ps"
    /\ bgpc = "check_empty"
    /\ subsLock = "free"
    /\ IF RegistryIsEmpty
       THEN /\ bgpc' = "dead"
            /\ ready' = FALSE
       ELSE /\ bgpc' = "top"
            /\ UNCHANGED ready
    /\ UNCHANGED <<transport, subscriptions, client_id, stop, handle, counter,
                   sender, queue, subsLock, handleLock, pc, call, opsLeft,
                   closures, attempt, failed, delay, bgcid, frame, listeners,
                   invoked, panicked, conn, srvHello, srvSubs, pos, event,
                   dispatched, built, env, lastPost>>

\* A caller thread starts a call of the public API.
PsCall(t) ==
    \/ \E topic \in env.topics : PsPublish(t, topic)
    \/ \E topic \in env.topics : PsSubscribe(t, topic)
    \/ \E c \in closures : PsClosure(t, c)
    \/ \E topic \in env.topics : PsUnsubscribe(t, topic)
    \/ PsDisconnect(t)

\* A caller thread goes on with the call it is in.
PsStep(t) ==
    \/ PsEnsureReady(t)
    \/ PsEnsureHandle(t)
    \/ PsSend(t)
    \/ PsClosureCheck(t)
    \/ PsDiscStop(t)
    \/ PsDiscTake(t)
    \/ PsDiscJoin(t)
    \/ PsDiscReady(t)

PsBackground ==
    \/ PsBgStopped
    \/ PsBgConnectOk
    \/ PsBgConnectFail
    \/ PsBgClose
    \/ PsBgDrainOne
    \/ PsBgDrainDone
    \/ \E f \in MessageFrames \cup MalformedTexts : PsBgReadText(f)
    \/ PsBgReadOther
    \/ PsBgReadError
    \/ PsBgHandle
    \/ \E outcome \in Outcomes : PsBgInvoke(outcome)
    \/ PsBgInvoked
    \/ PsBgCheck
    \/ PsBgCheckEmpty

\* =====================================================================
\* Specifications
\* =====================================================================

NextRt == (\E t \in Callers : RtCall(t) \/ RtStep(t)) \/ RtBackground

NextPs == (\E t \in Callers : PsCall(t) \/ PsStep(t)) \/ PsBackground

Next == NextRt \/ NextPs

\* A thread that can go on does: a call in progress and the background
\* thread are scheduled, and a read of the stream returns (the HTTP client is
\* built with a timeout for the whole request, client.rs lines 214-216);
\* nothing makes the user start a call.
FairnessRt == WF_vars(RtBackground) /\ \A t \in Callers : WF_vars(RtStep(t))

\* Either service, every input, one connection.
Spec == Init /\ [][Next]_vars

\* RealtimeService over two connections.
SpecRtReconnect ==
    /\ \E scope \in {"all", "subscribe_clear"} :
          InitWith("rt", OneCaller, PlainEnv(ReconnectConn, scope))
    /\ [][NextRt]_vars
    /\ FairnessRt

\* PubSubService over two connections.
SpecPsReconnect ==
    /\ InitWith("ps", OneCaller, PlainEnv(ReconnectConn, "all"))
    /\ [][NextPs]_vars

\* =====================================================================
\* Properties
\* =====================================================================

\* The listeners of a registry, each with the key it is registered under.
Registered(reg) ==
    UNION { { <<k, reg[k][i]>> : i \in 1..Len(reg[k]) } : k \in DOMAIN reg }

\* Registered(reg) without the listener id.
RegisteredWithout(reg, id) == { p \in Registered(reg) : p[2] # id }

\* C1 (RealtimeService): invoking the unsubscribe closure returned by
\* subscribe(topic, query, headers, cb) removes from the registry exactly the
\* listener that subscribe call registered, for every topic and every
\* options combination, and leaves every other listener registered under the
\* key it had.
C1_ClosureRemovesExactlyItsListener ==
    [][\A t \in Callers : \A c \in closures :
          RtClosure(t, c) =>
              Registered(subscriptions') = RegisteredWithout(subscriptions, c.id)]_vars

\* The listeners of a topic whose closure has not been invoked: the closure
\* is still to be called, or the subscribe call that pushed the listener has
\* not returned it yet.
Kept(topic) ==
    { c.id : c \in { x \in closures : x.topic = topic } }
    \cup { call[t].id : t \in { u \in Callers : call[u].kind = "subscribe"
                                              /\ call[u].topic = topic } }

\* The elements of a sequence
Range(s) == { s[i] : i \in 1..Len(s) }

\* C2 (PubSubService): invoking the unsubscribe closure returned by
\* subscribe(topic, cb) removes exactly the listener registered by that call
\* and leaves every other listener registered; with subscribe and closure
\* calls only, a message for a topic is delivered to the listeners whose
\* closure was not invoked (c2) and to no listener whose closure was (c1).
C2_PubSubClosureRemovesExactlyItsListener ==
    [][/\ \A t \in Callers : \A c \in closures :
             PsClosure(t, c) =>
                 Registered(subscriptions') = RegisteredWithout(subscriptions, c.id)
       /\ (PsBgHandle /\ env.scope = "subscribe_closure") =>
             Range(listeners') = Kept(frame.name)]_vars

\* The background thread has stored the session id of PB_CONNECT on a
\* connection that follows a lost one.
Rehandshaken == bgpc = "hs_ready" /\ conn >= 2

\* The replay of the handshake on the open connection has been sent.
Replayed == lastPost.by = "bg" /\ lastPost.cid = conn

\* C3 (RealtimeService): after the connection is lost and a new connection
\* completes its handshake (PB_CONNECT with a session id) while the registry
\* is non-empty, the server receives exactly one resubscription request for
\* that handshake, carrying the session id and the full current key set of
\* the registry: the replay step sends that request, once per connection, and
\* every such handshake is followed by it, or at least by the server holding
\* the full key set for the new connection or the registry being emptied.
C3_ReplayAfterReconnect ==
    /\ [][(RtBgReplayKeys /\ conn >= 2 /\ ~RegistryIsEmpty) =>
              /\ lastPost' = [cid |-> conn, keys |-> DOMAIN subscriptions, by |-> "bg"]
              /\ ~Replayed]_vars
    /\ (Rehandshaken /\ ~RegistryIsEmpty)
           ~> (Replayed \/ srvSubs = DOMAIN subscriptions \/ RegistryIsEmpty)

\* C5 (RealtimeService): while connected (session id set), every registry
\* mutation that leaves the registry non-empty, made by subscribe,
\* unsubscribe(Some(topic)), unsubscribe_by_prefix or an unsubscribe closure,
\* is followed by a resubscription request carrying the full current key
\* set: the call that made the mutation sends it and returns, unless the
\* connection is lost first.
C5_MutationIsFollowedByRequest ==
    \A t \in Callers :
        (pc[t] = "submit_cid" /\ client_id # 0)
            ~> \/ client_id = 0
               \/ /\ pc[t] = "idle"
                  /\ lastPost.by = t
                  /\ lastPost.keys = DOMAIN subscriptions

\* C4 (PubSubService): after the socket connection is lost and the
\* background thread reconnects, the server is sent a subscribe envelope for
\* every topic in the registry: once the thread has written all it had to
\* write on the new connection and waits for a message, with no call in
\* progress, the server holds every topic of the registry for that
\* connection.
C4_SubscriptionsResentAfterReconnect ==
    (/\ conn >= 2
     /\ bgpc = "read"
     /\ queue = <<>>
     /\ \A t \in Callers : pc[t] = "idle")
        => DOMAIN subscriptions \subseteq srvSubs

\* C6 (RealtimeService): when one (topic, options) key holds two listeners c1
\* and c2, removing c1 through its unsubscribe closure leaves that entry with
\* exactly one listener (c2), leaves the key set unchanged, and sends no
\* unsubscribe notification to the server: the call neither sends a request
\* in that step nor goes on to disconnect().
C6_FirstOfTwoListenersRemoved ==
    [][\A t \in Callers : \A c \in closures : \A k \in DOMAIN subscriptions :
          (/\ RtClosure(t, c)
           /\ Len(subscriptions[k]) = 2
           /\ c.id \in Range(subscriptions[k]))
          => /\ DOMAIN subscriptions' = DOMAIN subscriptions
             /\ Len(subscriptions'[k]) = 1
             /\ Range(subscriptions'[k]) = Range(subscriptions[k]) \ {c.id}
             /\ lastPost' = lastPost
             /\ pc'[t] # "disc_stop"]_vars

\* The step appends the envelope e to the channel.
Queues(e) == queue' = Append(queue, e)

\* The step appends an envelope of the type to the channel.
QueuesType(type) ==
    Len(queue') = Len(queue) + 1 /\ queue'[Len(queue')].type = type

\* Thread t is in a closure call that removed the last listener of its topic.
RemovedLast(t) == call[t].kind = "closure" /\ call[t].flag

\* C7 (PubSubService): over any sequence of subscribe and unsubscribe-closure
\* calls on one topic, a subscribe envelope is queued only by the subscribe
\* call that adds the topic's first listener, an unsubscribe envelope is
\* queued exactly once by the closure call that removes the topic's last
\* listener, and closure calls that leave listeners on the topic queue
\* nothing.
C7_EnvelopesQueuedByFirstAndLast ==
    [][env.scope = "subscribe_closure" =>
         \A t \in Callers :
            /\ \A topic \in Topics :
                  PsSubscribe(t, topic) =>
                      (call'[t].flag <=> topic \notin DOMAIN subscriptions)
            /\ \A c \in closures :
                  PsClosure(t, c) =>
                      /\ call'[t].flag <=>
                             (c.topic \in DOMAIN subscriptions
                              /\ c.topic \notin DOMAIN subscriptions')
                      /\ queue' = queue
            /\ QueuesType("subscribe") =>
                  \E u \in Callers :
                      PsSend(u) /\ call[u].kind = "subscribe" /\ call[u].flag
            /\ QueuesType("unsubscribe") => \E u \in Callers : PsSend(u) /\ RemovedLast(u)
            /\ (PsSend(t) /\ RemovedLast(t)) =>
                  Queues(EnvelopeOf(call[t]))
            /\ (PsSend(t) /\ call[t].kind = "closure" /\ ~call[t].flag) =>
                  queue' = queue]_vars

\* C7, amended: as C7, but the closure call that removes the topic's last
\* listener queues its unsubscribe envelope exactly once if the background
\* thread is still running when it sends, and queues nothing if the thread
\* has exited (the connection was lost while the registry was empty), since
\* the receiver of the channel no longer exists.
C7_EnvelopesQueuedWhileThreadRuns ==
    [][env.scope = "subscribe_closure" =>
         \A t \in Callers :
            /\ \A topic \in Topics :
                  PsSubscribe(t, topic) =>
                      (call'[t].flag <=> topic \notin DOMAIN subscriptions)
            /\ \A c \in closures :
                  PsClosure(t, c) =>
                      /\ call'[t].flag <=>
                             (c.topic \in DOMAIN subscriptions
                              /\ c.topic \notin DOMAIN subscriptions')
                      /\ queue' = queue
            /\ QueuesType("subscribe") =>
                  \E u \in Callers :
                      PsSend(u) /\ call[u].kind = "subscribe" /\ call[u].flag
            /\ QueuesType("unsubscribe") => \E u \in Callers : PsSend(u) /\ RemovedLast(u)
            /\ (PsSend(t) /\ RemovedLast(t)) =>
                  IF bgpc # "dead"
                  THEN Queues(EnvelopeOf(call[t]))
                  ELSE queue' = queue
            /\ (PsSend(t) /\ call[t].kind = "closure" /\ ~call[t].flag) =>
                  queue' = queue]_vars

\* C7, reached: with subscribe and closure calls only, a closure call that
\* removed the last listener of its topic has queued the unsubscribe envelope.
C7_LastListenerEnvelopeQueued ==
    /\ env.scope = "subscribe_closure"
    /\ \E t \in Callers :
          /\ pc[t] = "closure_check"
          /\ RemovedLast(t)
          /\ queue # <<>>
          /\ queue[Len(queue)] = [type |-> "unsubscribe", topic |-> call[t].topic, at |-> conn]
          /\ conn > 0

\* C8 (PubSubService): when the last listener of a topic is removed while the
\* socket is open, the unsubscribe envelope queued for that topic is written
\* to the socket before the background thread closes the connection,
\* including when the removal empties the registry and triggers
\* disconnect(): with subscribe and closure calls only (every unsubscribe
\* envelope then comes from a closure that removed a last listener), the
\* thread never closes a connection while an unsubscribe envelope queued
\* during that connection is still in the channel.
C8_UnsubscribeWrittenBeforeClose ==
    [][(PsBgClose /\ env.scope = "subscribe_closure") =>
          \A i \in 1..Len(queue) :
              ~(queue[i].type = "unsubscribe" /\ queue[i].at = conn)]_vars

\* C9 (both transports): after any sequence of subscribe,
\* unsubscribe(Some(topic)), unsubscribe(None), unsubscribe_by_prefix and
\* unsubscribe-closure calls, every key present in the subscription registry
\* maps to a non-empty listener list.
C9_NoEntryWithoutListener ==
    \A k \in DOMAIN subscriptions : subscriptions[k] # <<>>

\* C9, reached: a closure call has removed a listener and the registry still
\* holds an entry.
C9_EntryLeftAfterClosure ==
    /\ ~RegistryIsEmpty
    /\ \E t \in Callers : call[t].kind = "closure" /\ call[t].id \notin
          UNION { Range(subscriptions[k]) : k \in DOMAIN subscriptions }

\* A session id or readiness the service holds belongs to a handshake on the
\* connection the background thread has opened.
OnlyFromHandshake ==
    (bgpc # "dead" /\ (ready \/ client_id # 0)) => (srvHello /\ client_id = conn)

\* C10 (RealtimeService): unsubscribe(None) clears every key from the
\* registry and stops the background thread, which has exited and been
\* joined when the call returns, and the call does return; a subsequent
\* subscribe starts a new background thread that begins from the
\* disconnected state: stop flag cleared, readiness false, session id empty,
\* and these two stay so until a handshake on a connection of that thread.
C10_ClearStopsAndRestartBeginsDisconnected ==
    /\ [][\A t \in Callers :
            /\ RtUnsubscribeAll(t) => subscriptions' = EmptyRegistry
            /\ (RtDiscReady(t) /\ call[t].kind = "unsub_all") =>
                  /\ RegistryIsEmpty'
                  /\ bgpc' = "dead"
                  /\ ~handle'
                  /\ handleLock' = "free"
            /\ (RtEnsureThread(t) /\ bgpc = "dead" /\ bgpc' # "dead") =>
                  /\ ~stop'
                  /\ ~ready'
                  /\ client_id' = 0]_vars
    /\ []OnlyFromHandshake
    /\ \A t \in Callers : (call[t].kind = "unsub_all") ~> (pc[t] = "idle")

\* C10, reached: with subscribe and unsubscribe(None) calls only, after a
\* first thread had a connection and the first listener was cleared away, a
\* second subscribe has started a new thread, which has not connected yet:
\* stop flag cleared, readiness false, session id empty.
C10_RestartedAfterClear ==
    /\ env.scope = "subscribe_clear"
    /\ conn = 1
    /\ counter = 2
    /\ subscriptions = [k \in { <<"a">> } |-> <<2>>]
    /\ \E t \in Callers : call[t].kind = "subscribe" /\ pc[t] = "ensure_connected"
    /\ bgpc = "top"
    /\ ~stop /\ ~ready /\ client_id = 0


\* Thread t is in a closure call that removed a listener and left the
\* registry empty: realtime.rs lines 133-135, pubsub.rs lines 115-125.
EmptiedByClosure(t) ==
    /\ call[t].kind = "closure"
    /\ RegistryIsEmpty
    /\ (transport = "ps" => call[t].flag)

\* C11 (both transports): when an unsubscribe closure removes the last
\* listener of the whole registry, the background thread has been stopped
\* and joined by the time the closure returns (stop flag set, handle taken,
\* thread exited); when listeners remain in the registry after the removal,
\* the closure call does not run disconnect(): it never sets the stop flag.
C11_ClosureStopsThreadOnlyWhenRegistryEmptied ==
    [][\A t \in Callers :
          /\ ((RtDiscReady(t) \/ PsDiscReady(t)) /\ EmptiedByClosure(t)) =>
                /\ stop'
                /\ ~handle'
                /\ bgpc' = "dead"
                /\ pc'[t] = "idle"
          /\ ((RtDiscStop(t) \/ PsDiscStop(t)) /\ call[t].kind = "closure") =>
                RegistryIsEmpty
          /\ \A c \in closures :
                ((RtClosure(t, c) \/ PsClosure(t, c)) /\ ~RegistryIsEmpty') =>
                    /\ stop' = stop
                    /\ bgpc' = bgpc
                    /\ pc'[t] \notin {"disc_stop", "disc_take", "disc_join"}
          /\ (PsClosureCheck(t) /\ ~RegistryIsEmpty) => (pc'[t] = "idle" /\ stop' = stop)]_vars

\* C11, reached: a closure call that emptied the registry while the
\* background thread had a connection is about to return from disconnect(),
\* with the thread joined.
C11_ClosureJoinedThread ==
    \E t \in Callers :
        /\ pc[t] = "disc_ready"
        /\ EmptiedByClosure(t)
        /\ conn > 0
        /\ stop /\ ~handle /\ bgpc = "dead"

\* The background thread has left a connection or a failed open behind:
\* run_loop is at line 283, socket_loop at line 227.
AfterConnection ==
    \/ transport = "rt" /\ bgpc = "after_stop"
    \/ transport = "ps" /\ bgpc = "check"

\* The background thread is at the head of its loop with the stop flag
\* unset: its next step is an open of the connection.
Attempting == bgpc = "top" /\ ~stop

\* C12 (both transports): the background thread exits only when the stop
\* flag is set or it finds the registry empty, and while the stop flag is
\* unset and the registry is non-empty every failed open and every
\* connection loss is followed by another connection attempt.
C12_RetriesUntilStoppedOrEmpty ==
    /\ [][(bgpc # "dead" /\ bgpc' = "dead") => (stop \/ RegistryIsEmpty)]_vars
    /\ AfterConnection ~> (Attempting \/ stop \/ RegistryIsEmpty)

\* RealtimeService with up to BackoffFails failed opens.
SpecRtBackoff ==
    /\ InitWith("rt", OneCaller,
                [PlainEnv(MaxConn, "all") EXCEPT !.fails = BackoffFails])
    /\ [][NextRt]_vars

\* The delay after the k-th consecutive failed open, k = 0, 1, 2, ...
DelayAfterFailure(k) ==
    IF k = 0 THEN 200
    ELSE IF k = 1 THEN 500
    ELSE IF k = 2 THEN 1000
    ELSE IF k = 3 THEN 2000
    ELSE 5000

\* C13 (RealtimeService run loop): the delay applied after the k-th
\* consecutive failed open (k = 0, 1, 2, ...) is the k-th element of 200,
\* 500, 1000, 2000, 5000 ms, clamped to 5000 ms for k >= 4, and the
\* consecutive-failure counter returns to zero after any successful open, so
\* the first failure after a success waits 200 ms.
C13_BackoffDelays ==
    [][/\ RtBgOpenFail => delay' = DelayAfterFailure(failed)
       /\ RtBgOpenOk => attempt' = 0]_vars

\* C13, reached: the run loop has slept the clamped delay after its sixth
\* consecutive failed open.
C13_ClampedDelaySlept ==
    /\ bgpc = "after_stop"
    /\ failed = 6
    /\ delay = 5000

\* C14 (RealtimeService run loop): after a read error or remote close on an
\* opened connection, as after an open failure, if the stop flag is unset
\* and the registry is non-empty the loop waits a backoff delay before it
\* starts the next connection attempt; when the stop flag is set or the
\* registry is empty it terminates without waiting a backoff delay first.
C14_BackoffBeforeEveryRetry ==
    [][/\ (RtBgAfterEmpty /\ bgpc' = "top") => delay > 0
       /\ ((RtBgAfterStop \/ RtBgAfterEmpty) /\ bgpc' = "dead") => delay = 0]_vars

\* The state disconnect() leaves: stop flag set, handle slot empty, no
\* background thread, readiness false, session id empty.
Disconnected ==
    /\ stop
    /\ ~handle
    /\ bgpc = "dead"
    /\ ~ready
    /\ client_id = 0

\* C15 (both transports): disconnect() is idempotent and resets the
\* connection state: when it returns, the stop flag is set, no background
\* thread is alive, readiness is false and the session id is empty; called
\* again, or when no thread was ever started, it returns with the same
\* state; no step of it changes the registry.
C15_DisconnectResetsAndIsIdempotent ==
    [][\A t \in Callers :
          call[t].kind = "disconnect" =>
              /\ (RtDiscReady(t) \/ PsDiscReady(t)) =>
                     (Disconnected' /\ pc'[t] = "idle")
              /\ Disconnected => Disconnected'
              /\ subscriptions' = subscriptions]_vars

\* C15, reached: a disconnect() call made while listeners are registered is
\* about to return, having joined a background thread that had opened a
\* connection; the registry still holds the listeners.
C15_DisconnectJoinedWithListeners ==
    \E t \in Callers :
        /\ call[t].kind = "disconnect"
        /\ pc[t] = "disc_ready"
        /\ conn > 0
        /\ ~RegistryIsEmpty
        /\ stop /\ ~handle /\ bgpc = "dead" /\ client_id = 0

\* The shared state of a service: registry, listener-id counter, stop flag,
\* readiness, session id, sender and channel, handle slot and the
\* background thread.
shared == <<subscriptions, counter, stop, ready, client_id, sender, queue,
            handle, bgpc>>

\* C16 (both transports): subscribe, and publish of PubSubService, called
\* with an empty topic return an error immediately and leave all shared
\* state unchanged: the registry, listener-id counter, stop flag, readiness,
\* outbound queue and background-thread handle are as before, and no
\* background thread is started.
C16_EmptyTopicLeavesStateUnchanged ==
    [][\A t \in Callers :
          (\/ \E o \in OptionInputs : RtSubscribe(t, EmptyStr, o)
           \/ PsSubscribe(t, EmptyStr)
           \/ PsPublish(t, EmptyStr))
          => /\ UNCHANGED shared
             /\ pc'[t] = "idle"
             /\ call'[t] = NoCall
             /\ closures' = closures]_vars

\* C16, reached: the first call of a service was a subscribe or publish with
\* an empty topic and has returned: nothing is registered, no thread was
\* started and the stop flag is as constructed.
C16_EmptyTopicCallReturned ==
    \E t \in Callers :
        /\ opsLeft[t] = MaxOps - 1
        /\ pc[t] = "idle"
        /\ RegistryIsEmpty
        /\ counter = 0
        /\ ~stop /\ ~handle /\ ~sender /\ bgpc = "dead"

\* The keys subscribe may have built for a topic.
KeysOf(topic) ==
    { build_subscription_key(topic, o.query, o.headers) : o \in OptionInputs }

\* C17 (RealtimeService.subscribe): when readiness is not reached within the
\* bounded wait, the call returns a connection error (no closure is
\* returned) and the registration is not rolled back: the listener added by
\* this call is still in the registry under its key after the error is
\* returned.
C17_TimeoutKeepsRegistration ==
    [][\A t \in Callers :
          (RtEnsureConnected(t) /\ ~ready) =>
              /\ pc'[t] = "idle"
              /\ closures' = closures
              /\ subscriptions' = subscriptions
              /\ \E k \in KeysOf(call[t].topic) :
                    <<k, call[t].id>> \in Registered(subscriptions')]_vars

\* C17, reached: the only call made so far, subscribe("a", cb), has returned
\* without a closure and its listener is registered under the key "a".
C17_ListenerLeftAfterTimeout ==
    \E t \in Callers :
        /\ transport = "rt"
        /\ opsLeft[t] = MaxOps - 1
        /\ pc[t] = "idle"
        /\ closures = {}
        /\ subscriptions = [k \in { <<"a">> } |-> <<1>>]

\* No caller thread is in a call.
AllIdle == \A t \in Callers : pc[t] = "idle"

\* With subscribe and unsubscribe(None) calls only, the listener id is
\* registered under the key and its subscribe call returned no closure: the
\* call timed out in ensure_connected.
TimedOut(k, id) ==
    /\ env.scope = "subscribe_clear"
    /\ <<k, id>> \in Registered(subscriptions)
    /\ \A c \in closures : c.id # id
    /\ \A t \in Callers : call[t].id # id

\* The request of the handshake on the open connection carried the key and
\* the server holds it for that connection.
ActivatedOnHandshake(k) ==
    /\ lastPost.by = "bg"
    /\ lastPost.cid = conn
    /\ k \in lastPost.keys
    /\ k \in srvSubs

\* Some listener is left registered by a subscribe call that timed out.
AnyTimedOut ==
    \E k \in DOMAIN subscriptions : \E id \in Range(subscriptions[k]) :
        TimedOut(k, id)

\* The key of every listener left by a timed-out subscribe call was carried
\* by the request of the handshake on the open connection.
TimedOutActivated ==
    \A k \in DOMAIN subscriptions : \A id \in Range(subscriptions[k]) :
        TimedOut(k, id) => ActivatedOnHandshake(k)

\* C18 (RealtimeService): a listener left registered by a subscribe call
\* that timed out activates once the server becomes reachable, without any
\* further call by the user: the background thread stays alive with the
\* stop flag unset, and once it has stored the session id of a handshake the
\* resubscription request it sends for that handshake contains the
\* listener's key, unless the user starts another call first.
C18_TimedOutListenerActivates ==
    /\ []((AnyTimedOut /\ AllIdle) => (bgpc # "dead" /\ ~stop))
    /\ (AnyTimedOut /\ AllIdle /\ bgpc = "hs_ready")
          ~> ((AnyTimedOut /\ TimedOutActivated) \/ ~AllIdle)

\* C18, reached: the only call made, subscribe("a", cb), timed out, and the
\* background thread has since sent the request of a handshake with the key
\* "a".
C18_ActivatedAfterTimeout ==
    /\ TimedOut(<<"a">>, 1)
    /\ AllIdle
    /\ opsLeft["u1"] = MaxOps - 1
    /\ ActivatedOnHandshake(<<"a">>)

\* Either service with up to DispatchFrames inbound events, one topic.
SpecDispatch ==
    /\ \E kind \in {"rt", "ps"} :
          InitWith(kind, OneCaller,
                   [PlainEnv(MaxConn, "all") EXCEPT !.frames = DispatchFrames])
    /\ [][Next]_vars

\* C19 (both transports): when a listener callback panics during the
\* dispatch of an event, every other listener registered for the same key
\* still receives that event (the loop goes on with the next cloned listener
\* and ends only when all were called), the failing listener stays
\* registered and is cloned again for later events, and the background
\* thread keeps reading the connection.
C19_PanicOfCallbackIsContained ==
    [][/\ \A outcome \in Outcomes :
            (RtBgInvoke(outcome) \/ PsBgInvoke(outcome)) =>
                /\ bgpc' = "invoke"
                /\ invoked' = invoked + 1
                /\ listeners' = listeners
                /\ subscriptions' = subscriptions
                /\ UNCHANGED <<stop, ready, client_id, handle>>
       /\ (bgpc = "invoke" /\ bgpc' # "invoke") =>
             /\ invoked = Len(listeners)
             /\ bgpc' = (IF transport = "rt" THEN "listen" ELSE "inner")
       /\ (RtBgDispatch \/ PsBgHandle) =>
             /\ listeners' = ListenersFor(subscriptions, frame.name)
             /\ \A id \in panicked :
                   <<frame.name, id>> \in Registered(subscriptions) =>
                       id \in Range(listeners')]_vars

\* C19, reached: the first of two listeners of a key panicked on an earlier
\* event, and both listeners have been cloned for the next event.
C19_PanickedListenerClonedAgain ==
    /\ bgpc = "invoke"
    /\ env.frames = DispatchFrames - 2
    /\ invoked = 0
    /\ Len(listeners) = 2
    /\ panicked = {listeners[1]}

\* Either service called from two threads concurrently, one topic.
SpecConcurrent ==
    /\ \E kind \in {"rt", "ps"}, scope \in {"all", "subscribe_remove"} :
          InitWith(kind, TwoCallers, PlainEnv(MaxConn, scope))
    /\ [][Next]_vars

\* C20 (both transports): each service has at most one background thread
\* alive at any time, under every interleaving of concurrent subscribe,
\* publish, unsubscribe and disconnect calls: ensure_thread / ensure_socket
\* spawns a thread only when no thread is alive, the previous one having
\* exited and been joined.
C20_OneBackgroundThread ==
    [][\A t \in Callers :
          ((RtEnsureThread(t) \/ PsEnsureHandle(t)) /\ ~handle) =>
              /\ bgpc = "dead"
              /\ handleLock = "free"
              /\ bgpc' = "top"
              /\ handle']_vars

\* C20, reached: while one thread is finishing a disconnect() that joined a
\* background thread which had opened a connection, a subscribe or publish
\* call of the other thread has spawned the next background thread.
C20_RespawnedDuringDisconnect ==
    \E u \in Callers : \E t \in Callers \ {u} :
        /\ pc[u] = "disc_ready"
        /\ call[t].kind \in {"subscribe", "publish"}
        /\ pc[t] \in {"ensure_connected", "send"}
        /\ conn > 0
        /\ handle
        /\ bgpc = "top"

\* C21 (PubSubService): publish(topic, data) with a non-empty topic, called
\* when no connection is established, starts one: when ensure_socket has
\* looked at the handle slot a background thread is alive (connecting or
\* connected) and holds the receiver of the sender's channel, and the
\* publish envelope is then queued for it; this holds after any earlier
\* calls and connection failures, including after an earlier background
\* thread ended because the connection failed while the registry was empty.
C21_PublishStartsConnection ==
    [][\A t \in Callers :
          call[t].kind = "publish" =>
              /\ PsEnsureHandle(t) => (bgpc' # "dead" /\ sender')
              /\ (PsSend(t) /\ bgpc # "dead") =>
                    queue' = Append(queue, EnvelopeOf(call[t]))]_vars

\* The steps of socket_loop that do not wait for the server: every step but
\* the return of socket.read() (line 214), which blocks until the server
\* sends a message or the connection fails.
PsBgInternal ==
    \/ PsBgStopped
    \/ PsBgConnectOk
    \/ PsBgConnectFail
    \/ PsBgClose
    \/ PsBgDrainOne
    \/ PsBgDrainDone
    \/ PsBgHandle
    \/ \E outcome \in Outcomes : PsBgInvoke(outcome)
    \/ PsBgInvoked
    \/ PsBgCheck
    \/ PsBgCheckEmpty

\* A thread that can go on does; nothing makes the server send a message
\* and nothing makes the user start a call.
FairnessPs == WF_vars(PsBgInternal) /\ \A t \in Callers : WF_vars(PsStep(t))

\* PubSubService with threads that run, one topic.
SpecPsFair ==
    /\ InitWith("ps", OneCaller, PlainEnv(MaxConn, "all"))
    /\ [][NextPs]_vars
    /\ FairnessPs

\* C22 (PubSubService): an envelope queued while the socket is open and the
\* stop flag is unset is eventually written to the socket even if the
\* server sends no inbound frame: the channel is drained, unless the stop
\* flag is set or the connection ends first.
C22_QueuedEnvelopeIsWritten ==
    (queue # <<>> /\ SocketOpen /\ ~stop)
        ~> (queue = <<>> \/ stop \/ ~SocketOpen)

\* C23 (RealtimeService): listener callbacks are invoked in the order the
\* frames arrived on the active connection: a frame is read only when no
\* callback of an earlier frame is left to call (every invocation for f1 has
\* completed before f2 is read, let alone dispatched), the callbacks called
\* are those cloned for the frame read last, and the loop over them ends
\* only when all were called.
C23_CallbacksInFrameOrder ==
    [][/\ \A f \in ConnectFrames \cup EventFrames :
            RtBgReadFrame(f) =>
                (frame = NoFrame /\ listeners = <<>> /\ invoked = 0)
       /\ RtBgDispatch =>
             (frame.kind = "event" /\ listeners = <<>> /\ frame' = frame)
       /\ \A outcome \in Outcomes :
            RtBgInvoke(outcome) =>
                (frame.kind = "event" /\ frame' = frame /\ env'.frames = env.frames)
       /\ RtBgInvoked => invoked = Len(listeners)]_vars

\* C23, reached: the listener of a key was called for the first frame of a
\* connection (it panicked then) and has been cloned, not yet called, for
\* the second frame.
C23_SecondFrameAfterFirst ==
    /\ transport = "rt"
    /\ bgpc = "invoke"
    /\ env.frames = DispatchFrames - 2
    /\ invoked = 0
    /\ Len(listeners) = 1
    /\ panicked = {listeners[1]}

\* C24 (RealtimeService): unsubscribe(Some(T)) removes exactly the registry
\* keys that are T itself or an option variant of T; every other key, keys
\* of topics that merely start with T included, keeps its listener list
\* unchanged; if the registry becomes empty the call goes on to disconnect.
C24_UnsubscribeTopicRemovesItsKeys ==
    [][\A t \in Callers : \A topic \in Topics :
          RtUnsubscribeTopic(t, topic) =>
              /\ DOMAIN subscriptions' =
                     DOMAIN subscriptions \ { build_subscription_key(topic, o.query, o.headers) :
                                                o \in OptionInputs }
              /\ \A k \in DOMAIN subscriptions' : subscriptions'[k] = subscriptions[k]
              /\ (DOMAIN subscriptions' = {} => pc'[t] = "disc_stop")]_vars

\* =====================================================================
\* RealtimeService, listen() line by line
\* =====================================================================
\* A line is a sequence of characters as read_line returns it, terminator
\* included; field names, names and JSON texts are single tokens.
CR == "<CR>"

LF == "<LF>"

Whitespace == {" ", CR, LF}

\* str::trim_start
RECURSIVE TrimStart(_)
TrimStart(s) ==
    IF s # <<>> /\ s[1] \in Whitespace THEN TrimStart(Tail(s)) ELSE s

\* str::trim_end_matches(set)
RECURSIVE TrimEndMatches(_, _)
TrimEndMatches(s, set) ==
    IF s # <<>> /\ s[Len(s)] \in set
    THEN TrimEndMatches(SubSeq(s, 1, Len(s) - 1), set)
    ELSE s

\* str::trim
Trim(s) == TrimStart(TrimEndMatches(s, Whitespace))

\* str::split_once(':'): the place of the first colon
ColonAt(line) ==
    CHOOSE i \in 1..Len(line) :
        line[i] = ":" /\ \A j \in 1..(i - 1) : line[j] # ":"

\* listen, line 305: the line without its terminator
WithoutTerminator(raw) == TrimEndMatches(raw, {CR, LF})

\* listen, lines 311-325: the accumulator after a line that is not blank
EventAfterLine(evt, line) ==
    IF line[1] = ":" THEN evt
    ELSE IF ~Contains(line, ":") THEN evt
    ELSE LET field == SubSeq(line, 1, ColonAt(line) - 1)
             value == TrimStart(SubSeq(line, ColonAt(line) + 1, Len(line)))
         IN  IF field = <<"event">>
             THEN [evt EXCEPT !.event = IF value = EmptyStr THEN <<"message">> ELSE value]
             ELSE IF field = <<"data">>
             THEN [evt EXCEPT !.data = @ \o value \o <<LF>>]
             ELSE IF field = <<"id">>
             THEN [evt EXCEPT !.id = value]
             ELSE evt

\* dispatch_event, lines 337-341
EventName(evt) == IF evt.event = EmptyStr THEN <<"message">> ELSE evt.event

\* Value::Object(serde_json::Map::new())
EmptyObject == "{}"

\* serde_json::from_str succeeds on one JSON text with whitespace around it;
\* the token "[1]" is the JSON text of the inputs.
ParsesAsJson(s) == Len(Trim(s)) = 1 /\ Trim(s)[1] \in {"[1]"}

\* Payload, wrong: data that is not JSON is handed on as it is
PayloadOfRawText(evt) ==
    IF Trim(evt.data) = EmptyStr THEN EmptyObject ELSE Trim(evt.data)[1]

\* dispatch_event, lines 342-347
Payload(evt) ==
    IF Trim(evt.data) = EmptyStr
    THEN EmptyObject
    ELSE LET text == TrimEndMatches(evt.data, {LF})
         IN  IF ParsesAsJson(text) THEN Trim(text)[1] ELSE EmptyObject

\* The arguments dispatch_event works with
Dispatched(evt) == [name |-> EventName(evt), payload |-> Payload(evt), id |-> evt.id]

\* listen, lines 297-326: one line is read.  A set stop flag ends listen();
\* a blank line hands the accumulator to dispatch_event; any other line is
\* a comment, a field of the frame, or ignored.
ListenReadLine ==
    /\ transport = "rt"
    /\ bgpc = "listen"
    /\ pos < Len(env.stream)
    /\ pos' = pos + 1
    /\ LET line == WithoutTerminator(env.stream[pos + 1])
       IN  IF stop
           THEN /\ bgpc' = "after_stop"
                /\ event' = DefaultEvent
                /\ UNCHANGED <<frame, dispatched>>
           ELSE IF line = EmptyStr
           THEN /\ frame' = [kind |-> "event", name |-> EventName(event)]
                /\ dispatched' = Append(dispatched, Dispatched(event))
                /\ bgpc' = "dispatch"
                /\ UNCHANGED event
           ELSE /\ event' = EventAfterLine(event, line)
                /\ UNCHANGED <<frame, dispatched, bgpc>>
    /\ UNCHANGED <<transport, subscriptions, client_id, stop, ready, handle,
                   counter, sender, queue, subsLock, handleLock, pc, call,
                   opsLeft, closures, attempt, failed, delay, bgcid,
                   listeners, invoked, panicked, conn, srvHello, srvSubs,
                   built, env, lastPost>>

\* The lines the server sends
LineInputs ==
    { <<LF>>,
      <<CR, LF>>,
      <<":", "c", LF>>,
      <<"event", ":", "PING", LF>>,
      <<"event", ":", " ", "a", CR, LF>>,
      <<"event", ":", LF>>,
      <<"data", ":", " ", "[1]", LF>>,
      <<"data", ":", "x", LF>>,
      <<"id", ":", "7", LF>>,
      <<"retry", LF>> }

Streams == UNION { [1..n -> LineInputs] : n \in 0..MaxLines }

\* The state after subscribe("a", {}, {}, cb) returned Ok on the first
\* connection, the background thread being in listen(); what is left to
\* explore is the stream, later opens of the connection and one
\* disconnect() call.
ListenInit(s, opens) ==
    /\ transport = "rt"
    /\ subscriptions = (<<"a">> :> <<1>>)
    /\ client_id = 1
    /\ stop = FALSE
    /\ ready = TRUE
    /\ handle = TRUE
    /\ counter = 1
    /\ sender = FALSE
    /\ queue = <<>>
    /\ subsLock = "free"
    /\ handleLock = "free"
    /\ pc = [t \in Callers |-> "idle"]
    /\ call = [t \in Callers |-> NoCall]
    /\ opsLeft = [t \in Callers |-> IF t = "u1" THEN 1 ELSE 0]
    /\ closures = {[topic |-> <<"a">>, id |-> 1]}
    /\ bgpc = "listen"
    /\ attempt = 0
    /\ failed = 0
    /\ delay = 0
    /\ bgcid = 0
    /\ frame = NoFrame
    /\ listeners = <<>>
    /\ invoked = 0
    /\ panicked = {}
    /\ conn = 1
    /\ srvHello = TRUE
    /\ srvSubs = {<<"a">>}
    /\ pos = 0
    /\ event = DefaultEvent
    /\ dispatched = <<>>
    /\ built = <<>>
    /\ env = [conns |-> opens, fails |-> 0, frames |-> 0, panics |-> MaxPanics,
              topics |-> { <<"a">>, EmptyStr },
              options |-> { [query |-> NoMap, headers |-> NoMap] },
              scope |-> "all", stream |-> s, builds |-> <<>>, malformed |-> 0]
    /\ lastPost = [cid |-> 1, keys |-> {<<"a">>}, by |-> "u1"]

\* listen() over the stream of one connection, dispatch_event, the end of
\* the connection, and a disconnect() call.
NextListen ==
    \/ ListenReadLine
    \/ RtBgReadEnd
    \/ RtBgDispatch
    \/ \E outcome \in Outcomes : RtBgInvoke(outcome)
    \/ RtBgInvoked
    \/ RtBgAfterStop
    \/ RtBgAfterReset
    \/ RtBgAfterEmpty
    \/ RtBgStopped
    \/ \E t \in Callers :
          \/ RtDisconnect(t)
          \/ RtDiscStop(t)
          \/ RtDiscTake(t)
          \/ RtDiscJoin(t)
          \/ RtDiscClientId(t)
          \/ RtDiscReady(t)

SpecListen == (\E s \in Streams : ListenInit(s, 0)) /\ [][NextListen]_vars

\* The lines read since the last blank line among the first p lines of the
\* stream, without their terminators.
Segment(p) ==
    LET blanks == { i \in 1..p : WithoutTerminator(env.stream[i]) = EmptyStr }
        first  == IF blanks = {} THEN 1
                  ELSE (CHOOSE i \in blanks : \A j \in blanks : j <= i) + 1
    IN  [i \in 1..(p + 1 - first) |-> WithoutTerminator(env.stream[first + i - 1])]

\* The fields of the lines of a segment, accumulated from Event::default()
RECURSIVE Accumulated(_)
Accumulated(seg) ==
    IF seg = <<>>
    THEN DefaultEvent
    ELSE EventAfterLine(Accumulated(SubSeq(seg, 1, Len(seg) - 1)), seg[Len(seg)])

\* The next line of the stream is a blank line
NextLineIsBlank ==
    pos < Len(env.stream) /\ WithoutTerminator(env.stream[pos + 1]) = EmptyStr

\* C25 (RealtimeService, listen): each blank line ends exactly one frame:
\* the fields accumulated since the previous blank line are dispatched once
\* under the frame's event name when the blank line is read, and no other
\* step dispatches; after the dispatch the accumulator is reset, so that
\* while listen() reads, the accumulator holds the fields of the lines read
\* since the last blank line and nothing of an earlier frame; a frame
\* without a data line (a PING frame) is dispatched with an empty payload
\* and listen() goes on reading.
C25_BlankLineEndsOneFrame ==
    /\ []((transport = "rt" /\ bgpc = "listen") => event = Accumulated(Segment(pos)))
    /\ [][/\ (ListenReadLine /\ ~stop /\ NextLineIsBlank) =>
                /\ dispatched' = Append(dispatched, Dispatched(Accumulated(Segment(pos))))
                /\ frame'.name = EventName(Accumulated(Segment(pos)))
                /\ (\A i \in 1..Len(Segment(pos)) :
                        EventAfterLine(DefaultEvent, Segment(pos)[i]).data = EmptyStr) =>
                       dispatched'[Len(dispatched')].payload = EmptyObject
          /\ dispatched' # dispatched => (ListenReadLine /\ ~stop /\ NextLineIsBlank)
          /\ RtBgInvoked => (bgpc' = "listen" /\ event' = DefaultEvent)]_vars

\* C25, reached: a PING frame without data was dispatched with an empty
\* payload, and the frame after it, one data line and no event line, was
\* dispatched as "message" with the data parsed; listen() reads on.
C25_FrameAfterPingDispatched ==
    /\ bgpc = "listen"
    /\ Len(dispatched) = 2
    /\ dispatched[1] = [name |-> <<"PING">>, payload |-> EmptyObject, id |-> EmptyStr]
    /\ dispatched[2] = [name |-> <<"message">>, payload |-> "[1]", id |-> EmptyStr]

\* =====================================================================
\* RealtimeService, build_subscription_key entry by entry
\* =====================================================================
\* A HashMap is given by the order its iterator yields the entries in: a
\* sequence of <<name, value>> pairs with distinct names.  A serde_json::Map
\* is the sequence of its entries in storage order, which is the order
\* to_string writes them in.
NameIndex(n) == CHOOSE i \in 1..Len(NameOrder) : NameOrder[i] = n

\* MapInsert, wrong: the map keeps its entries in insertion order
MapInsertAppending(entries, k, v) ==
    IF \E i \in 1..Len(entries) : entries[i][1] = k
    THEN [i \in 1..Len(entries) |-> IF entries[i][1] = k THEN <<k, v>> ELSE entries[i]]
    ELSE Append(entries, <<k, v>>)

\* serde_json::Map::insert on the BTreeMap behind the map: the value of a
\* name already present is replaced, a new name goes to its place in name
\* order.
MapInsert(entries, k, v) ==
    IF \E i \in 1..Len(entries) : entries[i][1] = k
    THEN [i \in 1..Len(entries) |-> IF entries[i][1] = k THEN <<k, v>> ELSE entries[i]]
    ELSE SelectSeq(entries, LAMBDA e : NameIndex(e[1]) < NameIndex(k))
         \o << <<k, v>> >>
         \o SelectSeq(entries, LAMBDA e : NameIndex(e[1]) > NameIndex(k))

\* lines 219-221 and 226-228: the entries the iterator yields are inserted
\* one by one into a new map
RECURSIVE MapFromIteration(_)
MapFromIteration(order) ==
    IF order = <<>>
    THEN <<>>
    ELSE MapInsert(MapFromIteration(SubSeq(order, 1, Len(order) - 1)),
                   order[Len(order)][1], order[Len(order)][2])

\* build_subscription_key, lines 215-242, with the iteration orders of the
\* two HashMaps
KeyFromIteration(topic, qorder, horder) ==
    LET withQuery == IF qorder # <<>>
                     THEN MapInsert(<<>>, "query", MapFromIteration(qorder))
                     ELSE <<>>
        options   == IF horder # <<>>
                     THEN MapInsert(withQuery, "headers", MapFromIteration(horder))
                     ELSE withQuery
    IN  IF options = <<>>
        THEN topic
        ELSE LET suffix == <<"options=">> \o Encode(options)
             IN  IF Contains(topic, "?")
                 THEN topic \o <<"&">> \o suffix
                 ELSE topic \o <<"?">> \o suffix

\* subscribe, line 72: the key of the next input is built
BuildKey ==
    /\ transport = "rt"
    /\ Len(built) < Len(env.builds)
    /\ built' = Append(built,
                       KeyFromIteration(env.builds[Len(built) + 1].topic,
                                        env.builds[Len(built) + 1].query,
                                        env.builds[Len(built) + 1].headers))
    /\ UNCHANGED <<transport, subscriptions, client_id, stop, ready, handle,
                   counter, sender, queue, subsLock, handleLock, pc, call,
                   opsLeft, closures, bgpc, attempt, failed, delay, bgcid,
                   frame, listeners, invoked, panicked, conn, srvHello,
                   srvSubs, pos, event, dispatched, env, lastPost>>

\* The iteration orders of the maps over the names with at most MaxEntries
\* entries
IterationOrders(names, values) ==
    { o \in UNION { [1..n -> names \X values] : n \in 0..MaxEntries } :
        \A i, j \in 1..Len(o) : i # j => o[i][1] # o[j][1] }

\* Two calls of the key builder with one topic
BuildInputs ==
    { << [topic |-> t, query |-> q1, headers |-> h1],
         [topic |-> t, query |-> q2, headers |-> h2] >> :
        t \in Topics,
        q1 \in IterationOrders({"f", "g"}, {"1", "2"}),
        h1 \in IterationOrders({"x", "y"}, {"1"}),
        q2 \in IterationOrders({"f", "g"}, {"1", "2"}),
        h2 \in IterationOrders({"x", "y"}, {"1"}) }

SpecKeys ==
    /\ \E b \in BuildInputs :
          InitWith("rt", [t \in Callers |-> 0],
                   [PlainEnv(0, "all") EXCEPT !.builds = b])
    /\ [][BuildKey]_vars

\* The HashMap an iteration order belongs to
MapOf(order) ==
    [n \in { order[i][1] : i \in 1..Len(order) } |->
        (CHOOSE e \in { order[i] : i \in 1..Len(order) } : e[1] = n)[2]]

\* C26 (RealtimeService, build_subscription_key): for every topic T, two
\* option sets (query map, header map) that differ yield different keys,
\* equal option sets yield the same key whatever order the entries of the
\* maps are iterated (inserted) in, and empty query and header maps yield
\* the key T itself; the key is the one the builder over the maps gives.
C26_KeyDeterminedByOptionSet ==
    \A i, j \in 1..Len(built) :
        LET a == env.builds[i]
            b == env.builds[j]
        IN  /\ (built[i] = built[j]) <=>
                   (MapOf(a.query) = MapOf(b.query) /\ MapOf(a.headers) = MapOf(b.headers))
            /\ (a.query = <<>> /\ a.headers = <<>>) => built[i] = a.topic
            /\ built[i] = build_subscription_key(a.topic, MapOf(a.query), MapOf(a.headers))

\* C26, reached: two keys were built for equal option sets whose query maps
\* and header maps were iterated in different orders; the keys are equal
\* and carry an options suffix.
C26_SameOptionsOtherOrder ==
    /\ Len(built) = 2
    /\ Len(env.builds[1].query) = 2
    /\ env.builds[1].query # env.builds[2].query
    /\ MapOf(env.builds[1].query) = MapOf(env.builds[2].query)
    /\ env.builds[1].headers # env.builds[2].headers
    /\ MapOf(env.builds[1].headers) = MapOf(env.builds[2].headers)
    /\ built[1] = built[2]
    /\ built[1] # env.builds[1].topic

\* C27 (RealtimeService): no resubscription request is sent with an empty
\* subscriptions list or an empty session id: submit_subscriptions and
\* submit_subscriptions_inner send a request exactly when the session id
\* they copied and the key set they copied are both non-empty, and the list
\* of the request is the whole key set of the registry at the moment it is
\* copied, never a part of it.
C27_RequestsCarryIdAndAllKeys ==
    [][/\ \A t \in Callers :
            RtSubmitKeys(t) =>
                IF call[t].cid # 0 /\ DOMAIN subscriptions # {}
                THEN lastPost' = [cid |-> call[t].cid, keys |-> DOMAIN subscriptions, by |-> t]
                ELSE lastPost' = lastPost /\ srvSubs' = srvSubs
       /\ RtBgReplayKeys =>
             IF bgcid # 0 /\ DOMAIN subscriptions # {}
             THEN lastPost' = [cid |-> bgcid, keys |-> DOMAIN subscriptions, by |-> "bg"]
             ELSE lastPost' = lastPost /\ srvSubs' = srvSubs
       /\ lastPost' # lastPost =>
             /\ lastPost'.cid # 0
             /\ lastPost'.keys # {}
             /\ lastPost'.keys = DOMAIN subscriptions
             /\ RtBgReplayKeys \/ \E t \in Callers : RtSubmitKeys(t)]_vars

\* C27, reached: with two keys in the registry, the request of the second
\* subscribe call named both keys and the session id of the connection.
C27_SecondRequestNamesBothKeys ==
    /\ transport = "rt"
    /\ lastPost.by \in Callers
    /\ lastPost.cid = conn
    /\ lastPost.cid # 0
    /\ Cardinality(lastPost.keys) = 2
    /\ lastPost.keys = DOMAIN subscriptions

\* C28 (RealtimeService): the session id is cleared whenever the connection
\* leaves the connected state: when a connection attempt starts (the open
\* of run_loop, line 270) and when disconnect() returns, the stored session
\* id is empty and readiness is false; the id is set by the handshake of
\* the open connection only, so that no request built after that point
\* carries the session id of an earlier connection.
C28_SessionIdClearedOutsideConnection ==
    [][/\ (RtBgOpenOk \/ RtBgOpenFail) => (client_id = 0 /\ ~ready)
       /\ \A t \in Callers : RtDiscReady(t) => (client_id' = 0 /\ ~ready')
       /\ client_id' # client_id =>
             (client_id' = 0 \/ (RtBgStoreClientId /\ client_id' = conn))
       /\ \A t \in Callers : RtSubmitCid(t) => call'[t].cid = client_id]_vars

\* A caller thread waits in join() for a background thread that is in a
\* network operation: the read of the stream or of the socket, the
\* resubscription request, the writes of the socket.
WaitsForNetwork(t) ==
    /\ pc[t] = "disc_join"
    /\ bgpc \in (IF transport = "rt" THEN {"listen", "hs_keys"} ELSE {"drain", "read"})

\* C29 (both transports): no thread holds the registry lock while a network
\* read or write is in progress: the background thread owns the lock at no
\* position (it locks, copies and unlocks within one step), and a caller
\* thread that owns the lock does not wait for a network operation of the
\* background thread; the critical sections only copy or change data in
\* memory.
C29_NoLockAcrossNetwork ==
    /\ subsLock # "bg"
    /\ \A t \in Callers : subsLock = t => ~WaitsForNetwork(t)

\* listen() over the stream of one connection of RealtimeService, and
\* PubSubService with socket texts that are not JSON.
SpecMalformed ==
    /\ \/ \E s \in Streams : ListenInit(s, 0)
       \/ InitWith("ps", OneCaller,
                   [PlainEnv(MaxConn, "all") EXCEPT !.malformed = MaxMalformed])
    /\ [][NextListen \/ NextPs]_vars

\* The data accumulated for a frame is not empty and is not JSON
MalformedData(evt) ==
    /\ Trim(evt.data) # EmptyStr
    /\ ~ParsesAsJson(TrimEndMatches(evt.data, {LF}))

\* A step of the background thread that works on a malformed frame: the
\* read of the blank line that ends it and its dispatch (RealtimeService),
\* the read of the text and its handling (PubSubService).
HandlesMalformed ==
    \/ ListenReadLine /\ ~stop /\ NextLineIsBlank /\ MalformedData(event)
    \/ /\ MalformedData(event)
       /\ RtBgDispatch \/ RtBgInvoked \/ \E outcome \in Outcomes : RtBgInvoke(outcome)
    \/ \E f \in MalformedTexts : PsBgReadText(f)
    \/ /\ frame \in MalformedTexts
       /\ PsBgHandle \/ PsBgInvoked \/ \E outcome \in Outcomes : PsBgInvoke(outcome)

\* C30 (both transports): a malformed inbound frame is never fatal.  A
\* push-stream frame whose data is not JSON is dispatched under its event
\* name with the empty object as payload, the listeners of that name are
\* cloned and every one of them is called, and listen() reads on; a socket
\* text that is not JSON has no listener cloned and none called, and the
\* socket loop goes on; in both cases the steps that work on the frame
\* leave the connection, readiness and the registry as they were and the
\* thread inside its read loop.
C30_MalformedFrameIsNotFatal ==
    [][/\ (ListenReadLine /\ ~stop /\ NextLineIsBlank /\ MalformedData(event)) =>
             /\ dispatched' = Append(dispatched,
                    [name |-> EventName(event), payload |-> EmptyObject, id |-> event.id])
             /\ frame' = [kind |-> "event", name |-> EventName(event)]
             /\ bgpc' = "dispatch"
       /\ (RtBgDispatch /\ MalformedData(event)) =>
             listeners' = ListenersFor(subscriptions, EventName(event))
       /\ (RtBgInvoked /\ MalformedData(event)) =>
             (invoked = Len(listeners) /\ bgpc' = "listen")
       /\ \A f \in MalformedTexts : PsBgReadText(f) => (frame' = f /\ bgpc' = "handle")
       /\ (PsBgHandle /\ frame \in MalformedTexts) => listeners' = <<>>
       /\ (PsBgInvoked /\ frame \in MalformedTexts) => (panicked' = panicked /\ bgpc' = "inner")
       /\ \A outcome \in Outcomes : PsBgInvoke(outcome) => frame \notin MalformedTexts
       /\ HandlesMalformed =>
             /\ ready' = ready
             /\ subscriptions' = subscriptions
             /\ conn' = conn
             /\ bgpc' \in {"listen", "dispatch", "invoke", "handle", "inner"}]_vars

\* C30, reached: a frame of the event "a" whose data is not JSON was
\* dispatched with the empty object, and the listener registered for "a"
\* has been called with it.
C30_ListenerCalledWithEmptyObject ==
    /\ transport = "rt"
    /\ bgpc = "invoke"
    /\ MalformedData(event)
    /\ frame.name = <<"a">>
    /\ listeners = <<1>>
    /\ invoked = 1
    /\ dispatched[Len(dispatched)].payload = EmptyObject
    /\ ready
\* =====================================================================
\* listen() over two connections
\* =====================================================================

\* listen() over the streams of two connections: the stream of the first
\* ends or fails after any line, and run_loop opens the second.  The lines
\* are a blank line, a data line, two event lines and an id line.
SpecListenReconnect ==
    /\ \E s \in { x \in Streams :
                    \A i \in 1..Len(x) :
                        x[i] \in { <<LF>>,
                                   <<"data", ":", " ", "[1]", LF>>,
                                   <<"event", ":", "PING", LF>>,
                                   <<"event", ":", " ", "a", CR, LF>>,
                                   <<"id", ":", "7", LF>> } } :
          ListenInit(s, MaxConn)
    /\ [][NextListen \/ RtBgOpenOk]_vars

\* C31 (RealtimeService, listen): when the stream ends or a read fails
\* after fields of a frame were read and before its blank line, the partial
\* frame is never dispatched: the end of the read loop dispatches nothing
\* and drops the accumulator, the accumulator is empty whenever the thread
\* is outside listen() and when the next connection is opened, and the only
\* dispatch is that of the accumulator at a blank line, which therefore
\* holds fields of the open connection only.
C31_PartialFrameNeverDispatched ==
    /\ []((transport = "rt" /\ bgpc \notin {"listen", "dispatch", "invoke"})
              => event = DefaultEvent)
    /\ [][/\ RtBgReadEnd => (dispatched' = dispatched /\ event' = DefaultEvent)
          /\ RtBgOpenOk => (event = DefaultEvent /\ event' = DefaultEvent
                            /\ dispatched' = dispatched)
          /\ dispatched' # dispatched =>
                /\ ListenReadLine /\ ~stop /\ NextLineIsBlank
                /\ dispatched' = Append(dispatched, Dispatched(event))]_vars

\* C31, reached: the first connection ended after a data line and before a
\* blank line; on the second connection an event line and a blank line were
\* read, and that frame was dispatched without the data of the first.
C31_FrameOfSecondConnectionOnly ==
    /\ conn = 2
    /\ pos = 3
    /\ env.stream[1] = <<"data", ":", " ", "[1]", LF>>
    /\ env.stream[2] = <<"event", ":", "PING", LF>>
    /\ dispatched = << [name |-> <<"PING">>, payload |-> EmptyObject, id |-> EmptyStr] >>

\* C32 (RealtimeService): unsubscribe(Some(topic)), unsubscribe_by_prefix
\* and the unsubscribe closure return when listeners remain in the registry
\* after the removal: the calling thread never waits, at the lock() of
\* submit_subscriptions (line 194), for the registry lock that it holds
\* itself.
C32_RemovalNeverWaitsForOwnLock ==
    \A t \in Callers :
        ~(/\ call[t].kind \in {"unsub_topic", "unsub_prefix", "closure"}
          /\ pc[t] = "submit_keys"
          /\ subsLock = t)

\* C33 (RealtimeService): a removal that empties the registry (the
\* unsubscribe closure, unsubscribe(Some(topic)), unsubscribe_by_prefix) and
\* goes on to disconnect() with the registry guard held always returns: the
\* join inside disconnect() completes whatever the background thread is
\* about to do when the caller takes the registry lock (dispatch an event,
\* replay the subscriptions, look whether the registry is empty).
C33_EmptyingRemovalReturns ==
    \A t \in Callers :
        (pc[t] = "disc_stop" /\ subsLock = t) ~> (pc[t] = "idle")

\* C34 (PubSubService): unsubscribe, with a topic or None, always returns:
\* when it holds the registry guard and the background thread is handling
\* an inbound message or looking whether the registry is empty, the call
\* still comes back, through the join of disconnect() if it emptied the
\* registry.
C34_PubSubUnsubscribeReturns ==
    \A t \in Callers :
        (/\ call[t].kind = "unsubscribe"
         /\ subsLock = t
         /\ bgpc \in {"handle", "check_empty"})
            ~> (pc[t] = "idle")

\* C35 (both transports): with subscribe and removal calls only (the user
\* never calls disconnect()), whenever no call is in progress and the
\* registry holds a listener, a background thread is alive to serve it,
\* also after a subscribe that ran concurrently with a removal that emptied
\* the registry.
C35_RegisteredListenerIsServed ==
    (/\ env.scope = "subscribe_remove"
     /\ \A t \in Callers : pc[t] = "idle"
     /\ ~RegistryIsEmpty)
        => bgpc # "dead"

\* C36 (RealtimeService): while the background thread has an open
\* connection on which it processed a handshake carrying a session id,
\* readiness is true and the stored session id is the one of that
\* handshake, until that connection ends: the handshake leaves both set,
\* and no step taken while the thread stays on the connection, a
\* disconnect() of another thread included, clears either.
C36_SessionKeptWhileConnected ==
    [][/\ RtBgSetReady => (ready' /\ client_id' = conn)
       /\ (/\ transport = "rt"
           /\ bgpc \in {"hs_cid", "hs_keys", "listen", "dispatch", "invoke"}
           /\ bgpc' \in {"hs_cid", "hs_keys", "listen", "dispatch", "invoke"}
           /\ conn > 0
           /\ ready
           /\ client_id = conn)
          => (ready' /\ client_id' = conn)]_vars

\* =====================================================================
\* RealtimeService, callbacks that call an unsubscribe closure
\* =====================================================================

\* dispatch_event, line 373, with a callback that invokes the closure c:
\* unsubscribe_by_topic_and_id (lines 119-139) runs on the background
\* thread.  The registry guard taken at line 119 lives to the end of the
\* function; with listeners left the thread goes to submit_subscriptions,
\* whose lock() at line 194 it can never pass, with none left to
\* disconnect(); if no key matched, the callback returns.
RtBgCallbackClosure(c) ==
    /\ transport = "rt"
    /\ bgpc = "invoke"
    /\ invoked < Len(listeners)
    /\ c \in closures
    /\ subsLock = "free"
    /\ closures' = closures \ {c}
    /\ subscriptions' = RemoveListener(subscriptions, c.topic, c.id)
    /\ IF RemovalChanged(subscriptions, c.topic)
       THEN /\ subsLock' = "bg"
            /\ bgpc' = IF RegistryIsEmpty' THEN "cb_stop" ELSE "cb_submit"
            /\ UNCHANGED invoked
       ELSE /\ invoked' = invoked + 1
            /\ UNCHANGED <<subsLock, bgpc>>
    /\ UNCHANGED <<transport, client_id, stop, ready, handle, counter, sender,
                   queue, handleLock, pc, call, opsLeft, attempt, failed,
                   delay, bgcid, frame, listeners, panicked, conn, srvHello,
                   srvSubs, pos, event, dispatched, built, env, lastPost>>

\* disconnect(), lines 144-151, run by the background thread inside a
\* callback.  The handle it takes at line 145 is its own: join() on the
\* current thread panics where the platform reports the deadlock (the
\* unwinding drops the guards and catch_unwind at line 373 ends the
\* callback) and never returns where it does not.  With the slot empty the
\* session id and readiness are cleared and the callback returns.
RtBgCallbackDisconnect ==
    /\ transport = "rt"
    /\ \/ /\ bgpc = "cb_stop"
          /\ stop' = TRUE
          /\ bgpc' = "cb_take"
          /\ UNCHANGED <<handle, handleLock, subsLock, invoked, panicked,
                         client_id, ready>>
       \/ /\ bgpc = "cb_take"
          /\ handleLock = "free"
          /\ IF handle
             THEN /\ handle' = FALSE
                  /\ \E outcome \in {"panics", "hangs"} :
                        IF outcome = "panics"
                        THEN /\ subsLock' = "free"
                             /\ invoked' = invoked + 1
                             /\ panicked' = panicked \cup {listeners[invoked + 1]}
                             /\ bgpc' = "invoke"
                             /\ UNCHANGED handleLock
                        ELSE /\ handleLock' = "bg"
                             /\ bgpc' = "cb_join"
                             /\ UNCHANGED <<subsLock, invoked, panicked>>
                  /\ UNCHANGED <<client_id, ready>>
             ELSE /\ client_id' = 0
                  /\ ready' = FALSE
                  /\ subsLock' = "free"
                  /\ invoked' = invoked + 1
                  /\ bgpc' = "invoke"
                  /\ UNCHANGED <<handle, handleLock, panicked>>
          /\ UNCHANGED stop
    /\ UNCHANGED <<transport, subscriptions, counter, sender, queue, pc, call,
                   opsLeft, closures, attempt, failed, delay, bgcid, frame,
                   listeners, conn, srvHello, srvSubs, pos, event, dispatched,
                   built, env, lastPost>>

\* RealtimeService with listener callbacks that may invoke any unsubscribe
\* closure, one topic.
SpecCallback ==
    /\ InitWith("rt", OneCaller, PlainEnv(MaxConn, "all"))
    /\ [][NextRt \/ RtBgCallbackDisconnect
                 \/ \E c \in closures : RtBgCallbackClosure(c)]_vars

\* C37 (RealtimeService): an unsubscribe closure invoked from inside a
\* listener callback, on the background thread, completes, also when it
\* removes the last listener of the registry: the call comes back to the
\* dispatch without a panic and with disconnect() done (session id empty,
\* readiness false) if it emptied the registry, the thread never joins
\* itself, and it never waits for the registry lock while it holds it.
C37_UnsubscribeInsideCallbackCompletes ==
    [][/\ (bgpc = "cb_take" /\ bgpc' = "invoke") =>
             (client_id' = 0 /\ ~ready' /\ panicked' = panicked)
       /\ bgpc' # "cb_join"
       /\ bgpc' # "cb_submit"]_vars

\* C38 (both transports): once disconnect() has returned, no listener
\* callback is invoked until a later subscribe or publish starts a new
\* background thread: a callback is only called by a thread whose handle is
\* in the slot or is being joined; and a frame that is read after the stop
\* flag was set is not dispatched: the read is not followed by the cloning
\* of listeners.
C38_NoDispatchAfterStop ==
    [][/\ (\E outcome \in Outcomes : RtBgInvoke(outcome) \/ PsBgInvoke(outcome)) =>
             (handle \/ \E t \in Callers : pc[t] = "disc_join")
       /\ \A f \in ConnectFrames \cup EventFrames :
             (RtBgReadFrame(f) /\ stop) =>
                 (frame' = frame /\ bgpc' \notin {"dispatch", "hs_id", "hs_cid"})
       /\ \A f \in MessageFrames \cup MalformedTexts :
             (PsBgReadText(f) /\ stop) => bgpc' # "handle"]_vars

\* C39 (RealtimeService): key building and removal matching agree: for
\* every non-empty topic T, with or without '?', and every query and header
\* maps, the key that build_subscription_key returns for T passes the
\* removal test for T (the key equals T or starts with T followed by '?').
C39_BuiltKeyMatchesItsTopic ==
    \A i \in 1..Len(built) : KeyMatchesTopic(built[i], env.builds[i].topic)

\* =====================================================================
\* RecordService
\* =====================================================================

\* RecordService of the collection, lines 42-72.  subscribe(topic, ...)
\* refuses the empty topic and passes "collection/topic" to
\* RealtimeService::subscribe; unsubscribe(Some(topic)) passes
\* "collection/topic" to RealtimeService::unsubscribe; unsubscribe(None)
\* calls unsubscribe_by_prefix with the collection name.
RecordCall(t, collection) ==
    \/ \E topic \in { <<"t">>, EmptyStr }, o \in env.options :
          RtSubscribe(t,
                      IF topic = EmptyStr THEN EmptyStr
                      ELSE collection \o <<"/">> \o topic,
                      o)
    \/ \E topic \in { <<"t">> } :
          RtUnsubscribeTopic(t, collection \o <<"/">> \o topic)
    \/ RtUnsubscribeByPrefix(t, collection)

\* The RecordService of every collection and the closures they return, over
\* one RealtimeService.
SpecRecord ==
    /\ InitWith("rt", OneCaller,
                [PlainEnv(MaxConn, "all") EXCEPT !.options = OptionInputs])
    /\ [][\/ \E t \in Callers :
                \/ \E collection \in Collections : RecordCall(t, collection)
                \/ \E c \in closures : RtClosure(t, c)
                \/ RtStep(t)
          \/ RtBackground]_vars

\* C40 (RecordService): unsubscribe(None) of the collection C removes the
\* subscriptions made through C, the keys "C/topic" with or without
\* options, and only those: every key of another collection, one whose
\* name starts with C included, stays in the registry with its listeners.
C40_RecordUnsubscribeRemovesOwnKeysOnly ==
    [][\A t \in Callers : \A collection \in Collections :
          RtUnsubscribeByPrefix(t, collection) =>
              /\ \A k \in DOMAIN subscriptions' :
                    ~StartsWith(k, collection \o <<"/">>)
              /\ \A k \in DOMAIN subscriptions :
                    ~StartsWith(k, collection \o <<"/">>) =>
                        /\ k \in DOMAIN subscriptions'
                        /\ subscriptions'[k] = subscriptions[k]]_vars

====
